---- MODULE Spec2Model ----
(***************************************************************************)
(* A model of the single-table database of this repository.                *)
(*                                                                         *)
(* Part I models the compiled program, src/project_files/start.c: a REPL   *)
(* over an in-memory table of fixed-size serialized rows.                  *)
(* Part II models db.c as the chapters under Code_Info and                 *)
(* src/unnamed/part_002 print it: a pager and a one-leaf B-tree.           *)
(*                                                                         *)
(* Memory is modelled as bytes (0..255).  A uint32_t is its four-byte      *)
(* object representation, least significant byte first, because its value  *)
(* range does not fit the model checker's integers.  Buffers are sequences *)
(* indexed from 1, so the byte at C offset k is element k + 1.             *)
(***************************************************************************)
EXTENDS Integers, Sequences, FiniteSets, TLC

(***************************************************************************)
(* Sizes.  The four below are scaled down from the source (32, 255, 4096   *)
(* and 100) so that a full table is a few rows; every size derived from    *)
(* them is computed as the source computes it.                             *)
(***************************************************************************)
COLUMN_USERNAME_SIZE == 2

COLUMN_EMAIL_SIZE == 3

PAGE_SIZE == 26

TABLE_MAX_PAGES == 2

\* sizeof(uint32_t)
ID_SIZE == 4

USERNAME_SIZE == COLUMN_USERNAME_SIZE

EMAIL_SIZE == COLUMN_EMAIL_SIZE

ID_OFFSET == 0

USERNAME_OFFSET == ID_OFFSET + ID_SIZE

EMAIL_OFFSET == USERNAME_OFFSET + USERNAME_SIZE

ROW_SIZE == ID_SIZE + USERNAME_SIZE + EMAIL_SIZE

ROWS_PER_PAGE == PAGE_SIZE \div ROW_SIZE

TABLE_MAX_ROWS == ROWS_PER_PAGE * TABLE_MAX_PAGES

Byte == 0..255

\* The values an uninitialized byte (fresh malloc memory, a fresh stack
\* frame) is drawn from.
Indeterminate == {0, 204}

NULL == <<>>

VARIABLES
    pc,            \* "running", "exited" (exit was called) or "crashed"
    exit_status,   \* "none", "EXIT_SUCCESS" or "EXIT_FAILURE"
    junk,          \* the byte this run finds in uninitialized memory
    input_buffer,  \* input_buffer->buffer: the line last read
    statement,     \* the Statement of the last iteration: [type, row_to_insert]
    table,         \* Table: [num_rows, pages]
    message,       \* what the last command printed after its rows
    selected,      \* the rows the last command printed, in order
    overrun,       \* the last command stored past the end of a Row field or a block
    inserted,      \* history: rows of the inserts answered "Executed."
    table0,        \* history: the table before the last command
    closed_rows,   \* history: the rows a select showed when the last run ended
    file,          \* the bytes of the database file of db.c (Part II)
    syscalls,      \* history: what the last .exit of db.c did to the file
    stdin,         \* the characters of the standard input not read yet
    buffer_length  \* input_buffer->buffer_length: the size getline keeps

vars == <<pc, exit_status, junk, input_buffer, statement, table, message,
          selected, overrun, inserted, table0, closed_rows, file,
          syscalls, stdin, buffer_length>>

(***************************************************************************)
(* Bytes and buffers                                                       *)
(***************************************************************************)
Rep(c, n) == [i \in 1..n |-> c]

\* The object representation of (uint32_t) v for an int v: the conversion
\* is modulo 2^32, so a negative v wraps (\div rounds down, % is >= 0).
U32Bytes(v) == [i \in 1..ID_SIZE |-> (v \div (256 ^ (i - 1))) % 256]

\* a < b as uint32_t values
U32Less(a, b) ==
    \E i \in 1..ID_SIZE :
        /\ a[i] < b[i]
        /\ \A j \in (i + 1)..ID_SIZE : a[j] = b[j]

\* memcpy(dest + doff, src + soff, n)
memcpy(dest, doff, src, soff, n) ==
    [i \in 1..Len(dest) |->
        IF i > doff /\ i <= doff + n THEN src[soff + (i - doff)] ELSE dest[i]]

\* malloc(n): n bytes of indeterminate content
malloc(n) == Rep(junk, n)

(***************************************************************************)
(* Row and its serialization                                               *)
(***************************************************************************)
\* struct Row as the bytes of its three members, which lie one after the
\* other (two char arrays follow a uint32_t without padding).
RowMem(row) == row.id \o row.username \o row.email

RowOfMem(mem) ==
    [id       |-> SubSeq(mem, 1, ID_SIZE),
     username |-> SubSeq(mem, ID_SIZE + 1, ID_SIZE + USERNAME_SIZE),
     email    |-> SubSeq(mem, ID_SIZE + USERNAME_SIZE + 1,
                         ID_SIZE + USERNAME_SIZE + EMAIL_SIZE)]

\* serialize_row with the email one byte further on than EMAIL_OFFSET.
serialize_row_gap(source, buf, off) ==
    memcpy(memcpy(memcpy(buf, off + ID_OFFSET, source.id, 0, ID_SIZE),
                  off + USERNAME_OFFSET, source.username, 0, USERNAME_SIZE),
           off + EMAIL_OFFSET + 1, source.email, 0, EMAIL_SIZE)

\* serialize_row(source, destination): destination is the buffer `buf` at
\* byte offset `off`; the result is the buffer after the three copies.
serialize_row(source, buf, off) ==
    LET b1 == memcpy(buf, off + ID_OFFSET, source.id, 0, ID_SIZE)
        b2 == memcpy(b1, off + USERNAME_OFFSET, source.username, 0, USERNAME_SIZE)
    IN  memcpy(b2, off + EMAIL_OFFSET, source.email, 0, EMAIL_SIZE)

\* deserialize_row with the email copied with the size of the username.
deserialize_row_short_email(buf, off) ==
    [id       |-> memcpy(Rep(0, ID_SIZE), 0, buf, off + ID_OFFSET, ID_SIZE),
     username |-> memcpy(Rep(0, USERNAME_SIZE), 0, buf, off + USERNAME_OFFSET,
                         USERNAME_SIZE),
     email    |-> memcpy(Rep(0, EMAIL_SIZE), 0, buf, off + EMAIL_OFFSET,
                         USERNAME_SIZE)]

\* deserialize_row(source, destination): source is `buf` at offset `off`;
\* every member of the destination is overwritten, so the result is a Row.
deserialize_row(buf, off) ==
    [id       |-> memcpy(Rep(0, ID_SIZE), 0, buf, off + ID_OFFSET, ID_SIZE),
     username |-> memcpy(Rep(0, USERNAME_SIZE), 0, buf, off + USERNAME_OFFSET,
                         USERNAME_SIZE),
     email    |-> memcpy(Rep(0, EMAIL_SIZE), 0, buf, off + EMAIL_OFFSET,
                         EMAIL_SIZE)]

(***************************************************************************)
(* Table                                                                   *)
(***************************************************************************)
PageIndex == 0..(TABLE_MAX_PAGES - 1)

\* new_table with every page allocated at once.
new_table_preallocated ==
    [num_rows |-> 0, pages |-> [i \in PageIndex |-> Rep(0, PAGE_SIZE)]]

new_table == [num_rows |-> 0, pages |-> [i \in PageIndex |-> NULL]]

\* row_slot(table, row_num): the page array after the lazy allocation, and
\* the page number and byte offset of the slot.  `oob` tells that
\* table->pages was indexed outside the array.
SlotOfPage(t, page_num, byte_offset) ==
    [pages       |-> IF page_num \in PageIndex /\ t.pages[page_num] = NULL
                     THEN [t.pages EXCEPT ![page_num] = malloc(PAGE_SIZE)]
                     ELSE t.pages,
     page_num    |-> page_num,
     byte_offset |-> byte_offset,
     oob         |-> page_num \notin PageIndex]

\* row_slot with the byte offset taken from the row number, not from the
\* place of the row in its page.
row_slot_unwrapped(t, row_num) ==
    SlotOfPage(t, row_num \div ROWS_PER_PAGE, row_num * ROW_SIZE)

row_slot(t, row_num) ==
    SlotOfPage(t, row_num \div ROWS_PER_PAGE, (row_num % ROWS_PER_PAGE) * ROW_SIZE)

\* free_table: frees pages[0], pages[1], ... up to the first NULL entry,
\* which is entry `stop`.
FreeUpTo(t, stop) ==
    [num_rows |-> t.num_rows,
     pages    |-> [i \in PageIndex |-> IF i < stop THEN NULL ELSE t.pages[i]]]

free_table(t) ==
    FreeUpTo(t, IF \E i \in PageIndex : t.pages[i] = NULL
                THEN CHOOSE i \in PageIndex :
                        /\ t.pages[i] = NULL
                        /\ \A j \in 0..(i - 1) : t.pages[j] # NULL
                ELSE TABLE_MAX_PAGES)

\* The loop of free_table ends at the first entry that is NULL and tests no
\* index against TABLE_MAX_PAGES: when no entry of the array is NULL it
\* reads pages[TABLE_MAX_PAGES], the word after the block of the Table.
FreeTableReadsBeyond(t) == \A i \in PageIndex : t.pages[i] # NULL

(***************************************************************************)
(* Text: strings are sequences of character codes without the final NUL.   *)
(***************************************************************************)
S_insert == <<105, 110, 115, 101, 114, 116>>

S_select == <<115, 101, 108, 101, 99, 116>>

S_exit == <<46, 101, 120, 105, 116>>

IsSpace(c) == c \in {32, 9, 10, 11, 12, 13}

IsDigit(c) == c \in 48..57

NotSpace(c) == ~IsSpace(c)

\* From position i of s, the first position whose character fails P (or
\* Len(s) + 1 when the run reaches the end of the string).
RunEnd(s, i, P(_)) ==
    CHOOSE j \in i..(Len(s) + 1) :
        /\ \A k \in i..(j - 1) : P(s[k])
        /\ j = Len(s) + 1 \/ ~P(s[j])

RECURSIVE DigitsVal(_)
DigitsVal(d) ==
    IF d = <<>> THEN 0
    ELSE 10 * DigitsVal(SubSeq(d, 1, Len(d) - 1)) + (d[Len(d)] - 48)

\* strcmp(s, lit) == 0
strcmp0(s, lit) == s = lit

\* strncmp(s, lit, n) == 0, for a literal of at least n characters
strncmp0(s, lit, n) == Len(s) >= n /\ SubSeq(s, 1, n) = SubSeq(lit, 1, n)

\* The %d conversion of sscanf at position i: white space is skipped, then
\* an optional sign and a run of decimal digits are converted.  `b` is the
\* position after the white space, `d` where the digits start and `e`
\* where they end.
ScanDigits(s, b, d, e) ==
    [ok   |-> e > d,
     val  |-> IF d > b /\ s[b] = 45 THEN 0 - DigitsVal(SubSeq(s, d, e - 1))
              ELSE DigitsVal(SubSeq(s, d, e - 1)),
     next |-> e]

ScanSign(s, b, d) == ScanDigits(s, b, d, RunEnd(s, d, IsDigit))

ScanIntAt(s, b) ==
    ScanSign(s, b, IF b <= Len(s) /\ s[b] \in {43, 45} THEN b + 1 ELSE b)

ScanInt(s, i) == ScanIntAt(s, RunEnd(s, i, IsSpace))

\* The %s conversion of sscanf at position i: white space is skipped, then
\* the run of non-space characters is the token; no width limits it.
ScanToken(s, b, e) == [ok |-> e > b, tok |-> SubSeq(s, b, e - 1), next |-> e]

ScanStrAt(s, b) == ScanToken(s, b, RunEnd(s, b, NotSpace))

ScanStr(s, i) == ScanStrAt(s, RunEnd(s, i, IsSpace))

\* %s stores the token and a NUL from byte offset off of mem on; what falls
\* beyond mem is not kept here (the caller is told through the lengths).
WriteStr(mem, off, tok) == memcpy(mem, off, tok \o <<0>>, 0,
                                  IF off + Len(tok) + 1 <= Len(mem)
                                  THEN Len(tok) + 1 ELSE Len(mem) - off)

(***************************************************************************)
(* Statements                                                              *)
(***************************************************************************)
\* sscanf(buffer, "insert %d %s %s", &row.id, row.username, row.email):
\* the number of conversions assigned and the Row afterwards.  `overrun`
\* tells that a token and its NUL did not fit the member they were stored
\* to, `smashed` that the store went past the end of the Row itself.
\* d, u and e are the three conversions.
ScanResult(row, d, u, e) ==
    IF ~d.ok THEN [assigned |-> 0, row |-> row, overrun |-> FALSE, smashed |-> FALSE]
    ELSE IF ~u.ok
    THEN [assigned |-> 1, row |-> [row EXCEPT !.id = U32Bytes(d.val)],
          overrun |-> FALSE, smashed |-> FALSE]
    ELSE IF ~e.ok
    THEN [assigned |-> 2,
          row |-> RowOfMem(WriteStr(RowMem([row EXCEPT !.id = U32Bytes(d.val)]),
                                    ID_SIZE, u.tok)),
          overrun |-> Len(u.tok) + 1 > USERNAME_SIZE,
          smashed |-> Len(u.tok) + 1 > USERNAME_SIZE + EMAIL_SIZE]
    ELSE [assigned |-> 3,
          row |-> RowOfMem(WriteStr(
                      WriteStr(RowMem([row EXCEPT !.id = U32Bytes(d.val)]),
                               ID_SIZE, u.tok),
                      ID_SIZE + USERNAME_SIZE, e.tok)),
          overrun |-> Len(u.tok) + 1 > USERNAME_SIZE \/ Len(e.tok) + 1 > EMAIL_SIZE,
          smashed |-> \/ Len(u.tok) + 1 > USERNAME_SIZE + EMAIL_SIZE
                      \/ Len(e.tok) + 1 > EMAIL_SIZE]

ScanEmail(buffer, row, d, u) ==
    ScanResult(row, d, u, IF u.ok THEN ScanStr(buffer, u.next) ELSE u)

ScanUsername(buffer, row, d) ==
    ScanEmail(buffer, row, d, IF d.ok THEN ScanStr(buffer, d.next)
                              ELSE [ok |-> FALSE, tok |-> <<>>, next |-> d.next])

sscanf_insert(buffer, row) ==
    ScanUsername(buffer, row, ScanInt(buffer, Len(S_insert) + 1))

\* The answer of prepare_statement to an insert whose scan ended as sc.
PreparedInsert(sc) ==
    [result    |-> IF sc.assigned < 3 THEN "PREPARE_SYNTAX_ERROR"
                   ELSE "PREPARE_SUCCESS",
     statement |-> [type |-> "STATEMENT_INSERT", row_to_insert |-> sc.row],
     overrun   |-> sc.overrun,
     smashed   |-> sc.smashed]

\* prepare_statement(input_buffer, statement)
prepare_statement(buffer, stmt) ==
    IF strncmp0(buffer, S_insert, 6)
    THEN PreparedInsert(sscanf_insert(buffer, stmt.row_to_insert))
    ELSE IF strcmp0(buffer, S_select)
    THEN [result    |-> "PREPARE_SUCCESS",
          statement |-> [stmt EXCEPT !.type = "STATEMENT_SELECT"],
          overrun   |-> FALSE,
          smashed   |-> FALSE]
    ELSE [result    |-> "PREPARE_UNRECOGNIZED_STATEMENT",
          statement |-> stmt,
          overrun   |-> FALSE,
          smashed   |-> FALSE]

\* The store of execute_insert made into a page that was just allocated,
\* whatever page the slot lies in.
InsertAt_fresh_page(stmt, t, slot) ==
    [result |-> "EXECUTE_SUCCESS",
     table  |-> [num_rows |-> t.num_rows + 1,
                 pages    |-> [slot.pages EXCEPT ![slot.page_num] =
                                 serialize_row(stmt.row_to_insert,
                                               malloc(PAGE_SIZE),
                                               slot.byte_offset)]]]

\* The store of execute_insert into the slot row_slot answered.
InsertAt(stmt, t, slot) ==
    [result |-> "EXECUTE_SUCCESS",
     table  |-> [num_rows |-> t.num_rows + 1,
                 pages    |-> IF slot.oob THEN slot.pages
                              ELSE [slot.pages EXCEPT ![slot.page_num] =
                                      serialize_row(stmt.row_to_insert,
                                                    slot.pages[slot.page_num],
                                                    slot.byte_offset)]]]

\* execute_insert with > for >= in the test for a full table.
execute_insert_late_full(stmt, t) ==
    IF t.num_rows > TABLE_MAX_ROWS
    THEN [result |-> "EXECUTE_TABLE_FULL", table |-> t]
    ELSE InsertAt(stmt, t, row_slot(t, t.num_rows))

\* execute_insert without the test for a full table.
execute_insert_untested(stmt, t) == InsertAt(stmt, t, row_slot(t, t.num_rows))

\* execute_insert(statement, table)
execute_insert(stmt, t) ==
    IF t.num_rows >= TABLE_MAX_ROWS
    THEN [result |-> "EXECUTE_TABLE_FULL", table |-> t]
    ELSE InsertAt(stmt, t, row_slot(t, t.num_rows))

\* The loop of execute_select from row i on: the rows printed and the
\* table as the calls of row_slot leave it.
RECURSIVE select_loop(_, _, _)
SelectAt(t, i, rows, slot) ==
    select_loop([t EXCEPT !.pages = slot.pages], i + 1,
                Append(rows, deserialize_row(slot.pages[slot.page_num],
                                             slot.byte_offset)))

select_loop(t, i, rows) ==
    IF i < t.num_rows
    THEN SelectAt(t, i, rows, row_slot(t, i))
    ELSE [result |-> "EXECUTE_SUCCESS", table |-> t, rows |-> rows]

\* execute_select with the loop started at row 1.
execute_select_from_one(stmt, t) == select_loop(t, 1, <<>>)

\* execute_select with one more call of row_slot, for the row number after
\* the last row.
execute_select_one_more(stmt, t) ==
    [result |-> "EXECUTE_SUCCESS",
     table  |-> [num_rows |-> t.num_rows,
                 pages    |-> row_slot(select_loop(t, 0, <<>>).table,
                                       t.num_rows).pages],
     rows   |-> select_loop(t, 0, <<>>).rows]

\* execute_select(statement, table)
execute_select(stmt, t) == select_loop(t, 0, <<>>)

(***************************************************************************)
(* The lines typed at the prompt                                           *)
(***************************************************************************)
\* "insert <id> <username> <email>"
InsertLine(id, username, email) ==
    S_insert \o <<32>> \o id \o <<32>> \o username \o <<32>> \o email

\* insert 2 a b / insert 1 c dd / insert -1 a b / insert 1 (too few
\* arguments) / select / .exit / .tables / update
Lines ==
    { InsertLine(<<50>>, <<97>>, <<98>>),
      InsertLine(<<49>>, <<99>>, <<100, 100>>),
      InsertLine(<<45, 49>>, <<97>>, <<98>>),
      S_insert \o <<32, 49>>,
      S_select,
      S_exit,
      <<46, 116, 97, 98, 108, 101, 115>>,
      <<117, 112, 100, 97, 116, 101>> }

\* Inserts whose username or email is longer than its column: insert 1 a b /
\* one character more than the username column holds / the username as
\* long as the whole Row / one character more than the email column holds /
\* select
OverlongLines ==
    { InsertLine(<<49>>, <<97>>, <<98>>),
      InsertLine(<<49>>, Rep(97, COLUMN_USERNAME_SIZE + 1), <<98>>),
      S_insert \o <<32, 49, 32>> \o Rep(97, ROW_SIZE),
      InsertLine(<<49>>, <<97>>, Rep(98, COLUMN_EMAIL_SIZE + 1)),
      S_select }

\* The lines of a session that is closed and started again.
ReopenLines ==
    { InsertLine(<<50>>, <<97>>, <<98>>),
      InsertLine(<<49>>, <<97>>, <<98>>),
      S_select,
      S_exit }

\* buffer[0], which is the NUL of an empty line
FirstChar(line) == IF line = <<>> THEN 0 ELSE line[1]

(***************************************************************************)
(* The program: one action for each way an iteration of main's loop ends   *)
(***************************************************************************)
\* `Statement statement;` in the loop body: every iteration has a new
\* object, whose bytes nothing has initialized.
FreshStatement(j) ==
    [type |-> "indeterminate", row_to_insert |-> RowOfMem(Rep(j, ROW_SIZE))]

\* A run starts: new_table(), new_input_buffer(), and a Statement whose
\* bytes nothing has initialized.
Start(j) ==
    /\ pc = "running"
    /\ exit_status = "none"
    /\ junk = j
    /\ input_buffer = <<>>
    /\ statement = FreshStatement(j)
    /\ table = new_table
    /\ message = ""
    /\ selected = <<>>
    /\ overrun = FALSE
    /\ inserted = <<>>
    /\ table0 = new_table

Init ==
    /\ \E j \in Indeterminate : Start(j)
    /\ closed_rows = [clean |-> FALSE, rows |-> <<>>]
    /\ file = <<>>
    /\ syscalls = <<>>
    /\ stdin = <<>>
    /\ buffer_length = 0

\* read_input: getline reports the end of the input.
ReadEof ==
    /\ pc = "running"
    /\ pc' = "exited"
    /\ exit_status' = "EXIT_FAILURE"
    /\ message' = "Error reading input"
    /\ selected' = <<>>
    /\ overrun' = FALSE
    /\ table0' = table
    /\ closed_rows' = [clean |-> FALSE, rows |-> <<>>]
    /\ statement' = FreshStatement(junk)
    /\ UNCHANGED <<stdin, buffer_length, file, syscalls, junk, input_buffer, table, inserted>>

\* ".exit": do_meta_command frees the table and exits.
MetaExit(L) ==
    \E line \in L :
        /\ pc = "running"
        /\ FirstChar(line) = 46
        /\ strcmp0(line, S_exit)
        /\ input_buffer' = line
        /\ table' = free_table(table)
        /\ pc' = "exited"
        /\ exit_status' = "EXIT_SUCCESS"
        /\ message' = ""
        /\ selected' = <<>>
        /\ overrun' = FALSE
        /\ table0' = table
        /\ closed_rows' = [clean |-> TRUE,
                           rows |-> execute_select(statement, table).rows]
        /\ statement' = FreshStatement(junk)
        /\ UNCHANGED <<stdin, buffer_length, file, syscalls, junk, inserted>>

\* ".exit" when free_table reads beyond the array.  The behaviour is
\* undefined: MetaExit is the outcome in which the word read is zero; this
\* is the outcome in which it is not, free is handed a word that is no
\* pointer of malloc, and the run dies.
MetaExitBeyond(L) ==
    \E line \in L :
        /\ pc = "running"
        /\ FirstChar(line) = 46
        /\ strcmp0(line, S_exit)
        /\ FreeTableReadsBeyond(table)
        /\ input_buffer' = line
        /\ table' = FreeUpTo(table, TABLE_MAX_PAGES)
        /\ pc' = "crashed"
        /\ message' = ""
        /\ selected' = <<>>
        /\ overrun' = FALSE
        /\ table0' = table
        /\ closed_rows' = [clean |-> FALSE, rows |-> <<>>]
        /\ statement' = FreshStatement(junk)
        /\ UNCHANGED <<stdin, buffer_length, file, syscalls, exit_status, junk, inserted>>

\* Any other line that starts with a dot.
MetaUnrecognized(L) ==
    \E line \in L :
        /\ pc = "running"
        /\ FirstChar(line) = 46
        /\ ~strcmp0(line, S_exit)
        /\ input_buffer' = line
        /\ message' = "Unrecognized command"
        /\ selected' = <<>>
        /\ overrun' = FALSE
        /\ table0' = table
        /\ statement' = FreshStatement(junk)
        /\ UNCHANGED <<stdin, buffer_length, file, syscalls, pc, exit_status, junk, table, inserted, closed_rows>>

\* prepare_statement answers PREPARE_UNRECOGNIZED_STATEMENT.
PrepareUnrecognized(L) ==
    \E line \in L :
        \E p \in {prepare_statement(line, FreshStatement(junk))} :
        /\ pc = "running"
        /\ FirstChar(line) # 46
        /\ p.result = "PREPARE_UNRECOGNIZED_STATEMENT"
        /\ input_buffer' = line
        /\ statement' = p.statement
        /\ message' = "Unrecognized keyword"
        /\ selected' = <<>>
        /\ overrun' = p.overrun
        /\ table0' = table
        /\ UNCHANGED <<stdin, buffer_length, file, syscalls, pc, exit_status, junk, table, inserted, closed_rows>>

\* prepare_statement answers PREPARE_SYNTAX_ERROR.
PrepareSyntaxError(L) ==
    \E line \in L :
        \E p \in {prepare_statement(line, FreshStatement(junk))} :
        /\ pc = "running"
        /\ FirstChar(line) # 46
        /\ p.result = "PREPARE_SYNTAX_ERROR"
        /\ ~p.smashed
        /\ input_buffer' = line
        /\ statement' = p.statement
        /\ message' = "Syntax Error"
        /\ selected' = <<>>
        /\ overrun' = p.overrun
        /\ table0' = table
        /\ UNCHANGED <<stdin, buffer_length, file, syscalls, pc, exit_status, junk, table, inserted, closed_rows>>

\* An insert is prepared and executed.  When the scan stored past the end
\* of the Row the behaviour is undefined; this is the outcome in which the
\* run goes on as if the bytes beyond had not been written.
Insert(L) ==
    \E line \in L :
        \E p \in {prepare_statement(line, FreshStatement(junk))} :
        \E x \in {execute_insert(p.statement, table)} :
        /\ pc = "running"
        /\ FirstChar(line) # 46
        /\ p.result = "PREPARE_SUCCESS"
        /\ p.statement.type = "STATEMENT_INSERT"
        /\ input_buffer' = line
        /\ statement' = p.statement
        /\ table' = x.table
        /\ message' = IF x.result = "EXECUTE_SUCCESS" THEN "Executed."
                      ELSE "Error: Table full."
        /\ selected' = <<>>
        /\ overrun' = p.overrun
        /\ inserted' = IF x.result = "EXECUTE_SUCCESS"
                       THEN Append(inserted, p.statement.row_to_insert)
                       ELSE inserted
        /\ table0' = table
        /\ UNCHANGED <<stdin, buffer_length, file, syscalls, pc, exit_status, junk, closed_rows>>

\* The other outcome of a scan that stored past the end of the Row: the
\* stack of main is corrupted and the run dies.
InsertSmashed(L) ==
    \E line \in L :
        \E p \in {prepare_statement(line, FreshStatement(junk))} :
        /\ pc = "running"
        /\ FirstChar(line) # 46
        /\ p.smashed
        /\ input_buffer' = line
        /\ statement' = p.statement
        /\ pc' = "crashed"
        /\ message' = ""
        /\ selected' = <<>>
        /\ overrun' = p.overrun
        /\ table0' = table
        /\ closed_rows' = [clean |-> FALSE, rows |-> <<>>]
        /\ UNCHANGED <<stdin, buffer_length, file, syscalls, exit_status, junk, table, inserted>>

\* A select is prepared and executed.
Select(L) ==
    \E line \in L :
        \E p \in {prepare_statement(line, FreshStatement(junk))} :
        \E x \in {execute_select(p.statement, table)} :
        /\ pc = "running"
        /\ FirstChar(line) # 46
        /\ p.result = "PREPARE_SUCCESS"
        /\ p.statement.type = "STATEMENT_SELECT"
        /\ input_buffer' = line
        /\ statement' = p.statement
        /\ table' = x.table
        /\ message' = "Executed."
        /\ selected' = x.rows
        /\ overrun' = p.overrun
        /\ table0' = table
        /\ UNCHANGED <<stdin, buffer_length, file, syscalls, pc, exit_status, junk, inserted, closed_rows>>

\* The program is started again after it ended.
Restart ==
    /\ pc # "running"
    /\ \E j \in Indeterminate :
        /\ pc' = "running"
        /\ exit_status' = "none"
        /\ junk' = j
        /\ input_buffer' = <<>>
        /\ statement' = FreshStatement(j)
        /\ table' = new_table
        /\ message' = ""
        /\ selected' = <<>>
        /\ overrun' = FALSE
        /\ inserted' = <<>>
        /\ table0' = new_table
    /\ UNCHANGED <<stdin, buffer_length, file, syscalls, closed_rows>>

Next ==
    \/ ReadEof
    \/ MetaExit(Lines)
    \/ MetaExitBeyond(Lines)
    \/ MetaUnrecognized(Lines)
    \/ PrepareUnrecognized(Lines)
    \/ PrepareSyntaxError(Lines)
    \/ Insert(Lines)
    \/ Select(Lines)

Spec == Init /\ [][Next]_vars

\* A session in which usernames and emails longer than their columns are
\* typed.
NextOverlong ==
    \/ Insert(OverlongLines)
    \/ InsertSmashed(OverlongLines)
    \/ Select(OverlongLines)

SpecOverlong == Init /\ [][NextOverlong]_vars

\* A session that is closed with .exit and started again.
NextReopen ==
    \/ MetaExit(ReopenLines)
    \/ MetaExitBeyond(ReopenLines)
    \/ Insert(ReopenLines)
    \/ Select(ReopenLines)
    \/ Restart

SpecReopen == Init /\ [][NextReopen]_vars

(***************************************************************************)
(* Properties of the program of Part I                                     *)
(***************************************************************************)
\* The rows a traversal of table t yields.
StoredRows(t) == execute_select(statement, t).rows

\* The last command was an insert that prepare_statement accepted.
InsertExecuted ==
    /\ statement.type = "STATEMENT_INSERT"
    /\ message \in {"Executed.", "Error: Table full."}

\* The last command was a select that was executed.
SelectExecuted ==
    /\ statement.type = "STATEMENT_SELECT"
    /\ message = "Executed."

\* The three conversions of the insert line last read.
LineId == ScanInt(input_buffer, Len(S_insert) + 1)

LineUsername == ScanStr(input_buffer, LineId.next)

LineEmail == ScanStr(input_buffer, LineUsername.next)

\* The line last read is an insert with an id, a username and an email.
InsertTyped ==
    /\ strncmp0(input_buffer, S_insert, 6)
    /\ LineId.ok
    /\ LineUsername.ok
    /\ LineEmail.ok

Ascending(rows) ==
    \A i \in 1..(Len(rows) - 1) : U32Less(rows[i].id, rows[i + 1].id)

\* C1: whatever the order of the inserts, the rows a select shows have
\* strictly ascending ids.
C1_SelectAscending == SelectExecuted => Ascending(selected)

\* C2: an insert whose id is the id of a stored row is answered with the
\* duplicate-key error and leaves the table as it was.
C2_DuplicateRejected ==
    (/\ InsertExecuted
     /\ \E i \in 1..Len(StoredRows(table0)) :
            StoredRows(table0)[i].id = statement.row_to_insert.id)
    => /\ message = "Error: Duplicate key."
       /\ table = table0

\* C3: after a clean close, the first select of the next run shows the rows
\* a select showed just before the close.
C3_PersistenceRoundTrip ==
    (/\ closed_rows.clean
     /\ pc = "running"
     /\ inserted = <<>>
     /\ SelectExecuted)
    => selected = closed_rows.rows

\* C4: deserializing the serialization of a row gives the row back, member
\* by member: for the row of every accepted insert at every slot of a page,
\* and for the slot execute_insert stored it to.
C4_RowCodecRoundTrip ==
    InsertExecuted =>
        /\ \A k \in 0..(ROWS_PER_PAGE - 1) :
              deserialize_row(serialize_row(statement.row_to_insert,
                                            malloc(PAGE_SIZE), k * ROW_SIZE),
                              k * ROW_SIZE)
              = statement.row_to_insert
        /\ message = "Executed." =>
              deserialize_row(
                  table.pages[row_slot(table, table.num_rows - 1).page_num],
                  row_slot(table, table.num_rows - 1).byte_offset)
              = statement.row_to_insert

\* A row with indeterminate trailing bytes was stored to the second slot of
\* a page and read back.
C4_Witness ==
    /\ InsertExecuted
    /\ message = "Executed."
    /\ junk # 0
    /\ table.num_rows = 2
    /\ statement.row_to_insert.username[1] = 97

\* C5: an insert whose username or email is longer than its column is
\* answered with the string-too-long error, stores nothing, and writes to no
\* byte beyond the Row member it scans into.
C5_OverlongRejected ==
    (/\ InsertTyped
     /\ \/ Len(LineUsername.tok) > COLUMN_USERNAME_SIZE
        \/ Len(LineEmail.tok) > COLUMN_EMAIL_SIZE)
    => /\ message = "String is too long."
       /\ table = table0
       /\ ~overrun
       /\ pc = "running"

\* C6: an insert whose id is negative is answered with the negative-id
\* error, stores nothing, and the loop goes on.
C6_NegativeIdRejected ==
    (InsertTyped /\ LineId.val < 0)
    => /\ message = "ID must be positive."
       /\ table = table0
       /\ pc = "running"

\* C7: an accepted insert is answered "Table full" exactly when the table
\* held TABLE_MAX_ROWS rows, and then the table is as it was.
C7_TableFullExactlyWhenFull ==
    InsertExecuted =>
        /\ message = "Error: Table full." <=> table0.num_rows = TABLE_MAX_ROWS
        /\ message = "Error: Table full." => table = table0

\* An insert into a table that holds TABLE_MAX_ROWS rows, on all of its pages.
C7_Witness ==
    /\ InsertExecuted
    /\ message = "Error: Table full."
    /\ table.num_rows = TABLE_MAX_ROWS
    /\ \A i \in PageIndex : table.pages[i] # NULL

\* C8: a select shows the rows of the inserts answered "Executed." since
\* the table was made, each once and no other row.
C8_SelectShowsInsertedRows ==
    SelectExecuted => selected = inserted

\* A select of rows that lie on two pages.
C8_Witness ==
    /\ SelectExecuted
    /\ Len(selected) = ROWS_PER_PAGE + 1
    /\ selected[1] # selected[2]

(***************************************************************************)
(* Part II: db.c as the chapters give it.  A pager caches the pages of a   *)
(* file, page 0 is a leaf node of a B-tree, a cursor names a cell.         *)
(***************************************************************************)
\* Scaled from 4096 and 400.
db_PAGE_SIZE == 65

db_TABLE_MAX_PAGES == 2

\* Row of db.c: each string member has one more byte, for the NUL.
db_USERNAME_SIZE == COLUMN_USERNAME_SIZE + 1

db_EMAIL_SIZE == COLUMN_EMAIL_SIZE + 1

db_USERNAME_OFFSET == ID_OFFSET + ID_SIZE

db_EMAIL_OFFSET == db_USERNAME_OFFSET + db_USERNAME_SIZE

db_ROW_SIZE == ID_SIZE + db_USERNAME_SIZE + db_EMAIL_SIZE

db_serialize_row(source, buf, off) ==
    memcpy(memcpy(memcpy(buf, off + ID_OFFSET, source.id, 0, ID_SIZE),
                  off + db_USERNAME_OFFSET, source.username, 0, db_USERNAME_SIZE),
           off + db_EMAIL_OFFSET, source.email, 0, db_EMAIL_SIZE)

db_deserialize_row(buf, off) ==
    [id       |-> memcpy(Rep(0, ID_SIZE), 0, buf, off + ID_OFFSET, ID_SIZE),
     username |-> memcpy(Rep(0, db_USERNAME_SIZE), 0, buf,
                         off + db_USERNAME_OFFSET, db_USERNAME_SIZE),
     email    |-> memcpy(Rep(0, db_EMAIL_SIZE), 0, buf,
                         off + db_EMAIL_OFFSET, db_EMAIL_SIZE)]

(***************************************************************************)
(* Node layout                                                             *)
(***************************************************************************)
NODE_INTERNAL == 0

NODE_LEAF == 1

NODE_TYPE_SIZE == 1

NODE_TYPE_OFFSET == 0

IS_ROOT_SIZE == 1

IS_ROOT_OFFSET == NODE_TYPE_SIZE

PARENT_POINTER_SIZE == 4

PARENT_POINTER_OFFSET == IS_ROOT_OFFSET + IS_ROOT_SIZE

COMMON_NODE_HEADER_SIZE == NODE_TYPE_SIZE + IS_ROOT_SIZE + PARENT_POINTER_SIZE

LEAF_NODE_NUM_CELLS_SIZE == 4

LEAF_NODE_NUM_CELLS_OFFSET == COMMON_NODE_HEADER_SIZE

LEAF_NODE_NEXT_LEAF_SIZE == 4

LEAF_NODE_NEXT_LEAF_OFFSET ==
    LEAF_NODE_NUM_CELLS_OFFSET + LEAF_NODE_NUM_CELLS_SIZE

LEAF_NODE_HEADER_SIZE ==
    COMMON_NODE_HEADER_SIZE + LEAF_NODE_NUM_CELLS_SIZE + LEAF_NODE_NEXT_LEAF_SIZE

LEAF_NODE_KEY_SIZE == 4

LEAF_NODE_VALUE_SIZE == db_ROW_SIZE

LEAF_NODE_CELL_SIZE == LEAF_NODE_KEY_SIZE + LEAF_NODE_VALUE_SIZE

LEAF_NODE_SPACE_FOR_CELLS == db_PAGE_SIZE - LEAF_NODE_HEADER_SIZE

LEAF_NODE_MAX_CELLS == LEAF_NODE_SPACE_FOR_CELLS \div LEAF_NODE_CELL_SIZE

\* The uint32_t whose object representation is the four bytes b.
U32Val(b) == b[1] + 256 * b[2] + 65536 * b[3] + 16777216 * b[4]

\* *(uint32_t *)(node + off)
ReadU32(node, off) == SubSeq(node, off + 1, off + ID_SIZE)

get_node_type(node) == node[NODE_TYPE_OFFSET + 1]

set_node_type(node, type) == [node EXCEPT ![NODE_TYPE_OFFSET + 1] = type]

set_node_root(node, is_root) ==
    [node EXCEPT ![IS_ROOT_OFFSET + 1] = IF is_root THEN 1 ELSE 0]

\* *leaf_node_num_cells(node)
leaf_node_num_cells(node) == U32Val(ReadU32(node, LEAF_NODE_NUM_CELLS_OFFSET))

\* *leaf_node_num_cells(node) = v
set_leaf_node_num_cells(node, v) ==
    memcpy(node, LEAF_NODE_NUM_CELLS_OFFSET, U32Bytes(v), 0,
           LEAF_NODE_NUM_CELLS_SIZE)

\* *leaf_node_next_leaf(node)
leaf_node_next_leaf(node) == U32Val(ReadU32(node, LEAF_NODE_NEXT_LEAF_OFFSET))

\* *leaf_node_next_leaf(node) = v
set_leaf_node_next_leaf(node, v) ==
    memcpy(node, LEAF_NODE_NEXT_LEAF_OFFSET, U32Bytes(v), 0,
           LEAF_NODE_NEXT_LEAF_SIZE)

\* The three accessors of a cell, as byte offsets into the node.
leaf_node_cell(cell_num) == LEAF_NODE_HEADER_SIZE + cell_num * LEAF_NODE_CELL_SIZE

leaf_node_key(cell_num) == leaf_node_cell(cell_num)

leaf_node_value(cell_num) == leaf_node_cell(cell_num) + LEAF_NODE_KEY_SIZE

\* *leaf_node_key(node, cell_num), as its four bytes
KeyAt(node, cell_num) == ReadU32(node, leaf_node_key(cell_num))

initialize_leaf_node(node) ==
    set_leaf_node_next_leaf(
        set_leaf_node_num_cells(
            set_node_root(set_node_type(node, NODE_LEAF), FALSE), 0), 0)

(***************************************************************************)
(* Pager                                                                   *)
(***************************************************************************)
db_PageIndex == 0..(db_TABLE_MAX_PAGES - 1)

\* pager_open(filename) on a file whose bytes are f; 3 is the descriptor
\* open() answers.
pager_open(f) ==
    [file_descriptor |-> 3,
     file_length     |-> Len(f),
     num_pages       |-> Len(f) \div db_PAGE_SIZE,
     pages           |-> [i \in db_PageIndex |-> NULL]]

\* lseek and read of get_page: the bytes the file has at the page go to
\* the start of the block malloc answered.
PageRead(f, page_num) ==
    [i \in 1..db_PAGE_SIZE |->
        IF page_num * db_PAGE_SIZE + i <= Len(f)
        THEN f[page_num * db_PAGE_SIZE + i] ELSE junk]

\* get_page without the test for a page that is in the cache already: every
\* call allocates and reads again.
get_page_rereading(pager, f, page_num) ==
    [pager EXCEPT
        !.pages[page_num] =
            IF page_num < pager.file_length \div db_PAGE_SIZE
            THEN PageRead(f, page_num) ELSE malloc(db_PAGE_SIZE),
        !.num_pages = IF page_num >= @ THEN page_num + 1 ELSE @]

\* get_page without the update of pager->num_pages.
get_page_uncounted(pager, f, page_num) ==
    IF pager.pages[page_num] = NULL
    THEN [pager EXCEPT
            !.pages[page_num] =
                IF page_num < pager.file_length \div db_PAGE_SIZE
                THEN PageRead(f, page_num) ELSE malloc(db_PAGE_SIZE)]
    ELSE pager

\* get_page(pager, page_num): the pager afterwards; the page it answers is
\* pages[page_num] of that pager.
get_page(pager, f, page_num) ==
    IF pager.pages[page_num] = NULL
    THEN [pager EXCEPT
            !.pages[page_num] =
                IF page_num < pager.file_length \div db_PAGE_SIZE
                THEN PageRead(f, page_num) ELSE malloc(db_PAGE_SIZE),
            !.num_pages = IF page_num >= @ THEN page_num + 1 ELSE @]
    ELSE pager

\* pager_flush with a write one byte short of the page.
pager_flush_short(f, page, page_num) ==
    [i \in 1..(IF Len(f) > (page_num + 1) * db_PAGE_SIZE - 1 THEN Len(f)
               ELSE (page_num + 1) * db_PAGE_SIZE - 1) |->
        IF i > page_num * db_PAGE_SIZE /\ i <= (page_num + 1) * db_PAGE_SIZE - 1
        THEN page[i - page_num * db_PAGE_SIZE]
        ELSE IF i <= Len(f) THEN f[i] ELSE 0]

\* lseek and write of pager_flush: the page goes to the file at its
\* offset; bytes of the file the write skips over read as zero.
pager_flush(f, page, page_num) ==
    [i \in 1..(IF Len(f) > (page_num + 1) * db_PAGE_SIZE THEN Len(f)
               ELSE (page_num + 1) * db_PAGE_SIZE) |->
        IF i > page_num * db_PAGE_SIZE /\ i <= (page_num + 1) * db_PAGE_SIZE
        THEN page[i - page_num * db_PAGE_SIZE]
        ELSE IF i <= Len(f) THEN f[i] ELSE 0]

\* The loop of db_close from page i on: the file afterwards.
RECURSIVE FlushFrom(_, _, _)
FlushFrom(pager, f, i) ==
    IF i >= pager.num_pages THEN f
    ELSE IF pager.pages[i] = NULL THEN FlushFrom(pager, f, i + 1)
    ELSE FlushFrom(pager, pager_flush(f, pager.pages[i], i), i + 1)

\* The calls the loop of db_close makes on the file from page i on:
\* pager_flush seeks to the offset of the page and writes it.
RECURSIVE FlushCalls(_, _)
FlushCalls(pager, i) ==
    IF i >= pager.num_pages THEN <<>>
    ELSE IF pager.pages[i] = NULL THEN FlushCalls(pager, i + 1)
    ELSE <<<<"write", i, i * db_PAGE_SIZE>>>> \o FlushCalls(pager, i + 1)

\* db_close with the file closed before the loop that flushes the pages.
db_close_before_flush(t, f) ==
    [file  |-> f,
     calls |-> <<<<"close", t.pager.file_descriptor>>>> \o FlushCalls(t.pager, 0),
     table |-> [pager |-> [file_descriptor |-> -1,
                           file_length     |-> t.pager.file_length,
                           num_pages       |-> t.pager.num_pages,
                           pages           |-> [i \in db_PageIndex |-> NULL]],
                root_page_num |-> t.root_page_num]]

\* db_close(table): the file afterwards, what is left of the table, and
\* the calls made on the file, in order.
db_close(t, f) ==
    [file  |-> FlushFrom(t.pager, f, 0),
     calls |-> FlushCalls(t.pager, 0) \o <<<<"close", t.pager.file_descriptor>>>>,
     table |-> [pager |-> [file_descriptor |-> -1,
                           file_length     |-> t.pager.file_length,
                           num_pages       |-> t.pager.num_pages,
                           pages           |-> [i \in db_PageIndex |-> NULL]],
                root_page_num |-> t.root_page_num]]

\* db_open that sets up page 0 as an empty root leaf whatever the file
\* holds.
OpenTable_always_initializing(pager, f) ==
    [pager |-> [get_page(pager, f, 0) EXCEPT
                    !.pages[0] = set_node_root(initialize_leaf_node(@), TRUE)],
     root_page_num |-> 0]

\* db_open without the call of set_node_root on the new root.
OpenTable_rootless(pager, f) ==
    [pager |-> IF pager.num_pages = 0
               THEN [get_page(pager, f, 0) EXCEPT
                        !.pages[0] = initialize_leaf_node(@)]
               ELSE pager,
     root_page_num |-> 0]

\* The table of db_open once the pager is open.
OpenTable(pager, f) ==
    [pager |-> IF pager.num_pages = 0
               THEN [get_page(pager, f, 0) EXCEPT
                        !.pages[0] = set_node_root(initialize_leaf_node(@), TRUE)]
               ELSE pager,
     root_page_num |-> 0]

db_open(f) == OpenTable(pager_open(f), f)

\* table t after get_page(t->pager, page_num)
WithPage(t, f, page_num) == [t EXCEPT !.pager = get_page(@, f, page_num)]

(***************************************************************************)
(* Cursor                                                                  *)
(***************************************************************************)
\* Binary search of a leaf for key: the index of the cell that holds it,
\* or the index where it is to go.
RECURSIVE BinarySearch(_, _, _, _)
BinarySearchAt(node, key, min_index, one_past_max_index, index) ==
    IF KeyAt(node, index) = key THEN index
    ELSE IF U32Less(key, KeyAt(node, index))
    THEN BinarySearch(node, key, min_index, index)
    ELSE BinarySearch(node, key, index + 1, one_past_max_index)

BinarySearch(node, key, min_index, one_past_max_index) ==
    IF one_past_max_index = min_index THEN min_index
    ELSE BinarySearchAt(node, key, min_index, one_past_max_index,
                        (min_index + one_past_max_index) \div 2)

LeafCursor(node, page_num, cell_num) ==
    [page_num     |-> page_num,
     cell_num     |-> cell_num,
     end_of_table |-> cell_num = leaf_node_num_cells(node)]

\* leaf_node_find(table, page_num, key); t has the page in its cache.
leaf_node_find(t, page_num, key) ==
    [table  |-> t,
     cursor |-> LeafCursor(t.pager.pages[page_num], page_num,
                           BinarySearch(t.pager.pages[page_num], key, 0,
                               leaf_node_num_cells(t.pager.pages[page_num])))]

\* table_find that answers the first cell of the root whatever the key.
table_find_at_start(t, f, key) ==
    [table  |-> WithPage(t, f, t.root_page_num),
     cursor |-> LeafCursor(WithPage(t, f, t.root_page_num).pager.pages[t.root_page_num],
                           t.root_page_num, 0)]

\* table_find(table, key)
table_find(t, f, key) ==
    leaf_node_find(WithPage(t, f, t.root_page_num), t.root_page_num, key)

\* table_start that never tells the end of the table.
StartCursor_never_at_end(t) ==
    [table  |-> t,
     cursor |-> [page_num     |-> 0,
                 cell_num     |-> 0,
                 end_of_table |-> FALSE]]

\* table_start(table); t has page 0 in its cache.
StartCursor(t) ==
    [table  |-> t,
     cursor |-> [page_num     |-> 0,
                 cell_num     |-> 0,
                 end_of_table |-> leaf_node_num_cells(t.pager.pages[0]) = 0]]

table_start(t, f) == StartCursor(WithPage(t, f, 0))

\* cursor_advance that goes back to the first cell of its leaf where the
\* chain of leaves ends.
AdvanceIn_around(node, cursor) ==
    IF cursor.cell_num + 1 >= leaf_node_num_cells(node)
    THEN [cursor EXCEPT !.cell_num = 0]
    ELSE [cursor EXCEPT !.cell_num = @ + 1]

\* cursor_advance with > for >= in the test for the last cell of the leaf.
AdvanceIn_one_past(node, cursor) ==
    IF cursor.cell_num + 1 > leaf_node_num_cells(node)
    THEN IF leaf_node_next_leaf(node) = 0
         THEN [cursor EXCEPT !.cell_num = @ + 1, !.end_of_table = TRUE]
         ELSE [cursor EXCEPT !.page_num = leaf_node_next_leaf(node),
                             !.cell_num = 0]
    ELSE [cursor EXCEPT !.cell_num = @ + 1]

\* cursor_advance(cursor); t has the page of the cursor in its cache.
AdvanceIn(node, cursor) ==
    IF cursor.cell_num + 1 >= leaf_node_num_cells(node)
    THEN IF leaf_node_next_leaf(node) = 0
         THEN [cursor EXCEPT !.cell_num = @ + 1, !.end_of_table = TRUE]
         ELSE [cursor EXCEPT !.page_num = leaf_node_next_leaf(node),
                             !.cell_num = 0]
    ELSE [cursor EXCEPT !.cell_num = @ + 1]

cursor_advance(t, cursor) == AdvanceIn(t.pager.pages[cursor.page_num], cursor)

(***************************************************************************)
(* Statements of db.c                                                      *)
(***************************************************************************)
IsDelim(c) == c = 32

NotDelim(c) == c # 32

\* strtok(..., " ") when the scan resumes at position i of s: the token
\* from b to e - 1, the buffer with a NUL stored over the delimiter that
\* ends the token, and where the next call resumes.  `null` tells that
\* strtok answers NULL.
StrtokAt(s, b, e) ==
    [null   |-> b > Len(s),
     tok    |-> SubSeq(s, b, e - 1),
     buffer |-> IF e <= Len(s) THEN [s EXCEPT ![e] = 0] ELSE s,
     next   |-> IF e <= Len(s) THEN e + 1 ELSE e]

StrtokFrom(s, b) == StrtokAt(s, b, RunEnd(s, b, NotDelim))

strtok(s, i) == StrtokFrom(s, RunEnd(s, i, IsDelim))

\* atoi(s)
atoi(s) == IF ScanInt(s, 1).ok THEN ScanInt(s, 1).val ELSE 0

\* prepare_insert once the four calls of strtok have answered; id_string,
\* username and email are the last three answers.
PrepareInsertTokens(stmt, id_string, username, email) ==
    IF id_string.null \/ username.null \/ email.null
    THEN [result    |-> "PREPARE_SYNTAX_ERROR",
          statement |-> [stmt EXCEPT !.type = "STATEMENT_INSERT"],
          buffer    |-> email.buffer]
    ELSE IF atoi(id_string.tok) < 0
    THEN [result    |-> "PREPARE_NEGATIVE_ID",
          statement |-> [stmt EXCEPT !.type = "STATEMENT_INSERT"],
          buffer    |-> email.buffer]
    ELSE IF \/ Len(username.tok) > COLUMN_USERNAME_SIZE
            \/ Len(email.tok) > COLUMN_EMAIL_SIZE
    THEN [result    |-> "PREPARE_STRING_TOO_LONG",
          statement |-> [stmt EXCEPT !.type = "STATEMENT_INSERT"],
          buffer    |-> email.buffer]
    ELSE [result    |-> "PREPARE_SUCCESS",
          statement |->
              [type |-> "STATEMENT_INSERT",
               row_to_insert |->
                   [id       |-> U32Bytes(atoi(id_string.tok)),
                    username |-> WriteStr(stmt.row_to_insert.username, 0,
                                          username.tok),
                    email    |-> WriteStr(stmt.row_to_insert.email, 0,
                                          email.tok)]],
          buffer    |-> email.buffer]

PrepareInsertEmail(stmt, id_string, username) ==
    PrepareInsertTokens(stmt, id_string, username,
                        strtok(username.buffer, username.next))

PrepareInsertUsername(stmt, id_string) ==
    PrepareInsertEmail(stmt, id_string, strtok(id_string.buffer, id_string.next))

PrepareInsertId(stmt, keyword) ==
    PrepareInsertUsername(stmt, strtok(keyword.buffer, keyword.next))

\* prepare_insert(input_buffer, statement)
prepare_insert(buffer, stmt) == PrepareInsertId(stmt, strtok(buffer, 1))

\* prepare_statement(input_buffer, statement) of db.c
db_prepare_statement(buffer, stmt) ==
    IF strncmp0(buffer, S_insert, 6) THEN prepare_insert(buffer, stmt)
    ELSE IF strcmp0(buffer, S_select)
    THEN [result    |-> "PREPARE_SUCCESS",
          statement |-> [stmt EXCEPT !.type = "STATEMENT_SELECT"],
          buffer    |-> buffer]
    ELSE [result    |-> "PREPARE_UNRECOGNIZED_STATEMENT",
          statement |-> stmt,
          buffer    |-> buffer]

\* leaf_node_insert without the loop that makes room: no cell is moved.
ShiftCells_none(node, i, cell_num) == node

\* The loop of leaf_node_insert that moves cells i - 1, ..., cell_num one
\* place to the right.
RECURSIVE ShiftCells(_, _, _)
ShiftCells(node, i, cell_num) ==
    IF i > cell_num
    THEN ShiftCells(memcpy(node, leaf_node_cell(i), node, leaf_node_cell(i - 1),
                           LEAF_NODE_CELL_SIZE),
                    i - 1, cell_num)
    ELSE node

\* leaf_node_insert that marks the node it stored into as an internal node.
LeafNodeStore_retyping(node, cell_num, key, value) ==
    set_node_type(
        db_serialize_row(value,
            memcpy(set_leaf_node_num_cells(
                       ShiftCells(node, leaf_node_num_cells(node), cell_num),
                       leaf_node_num_cells(node) + 1),
                   leaf_node_key(cell_num), key, 0, LEAF_NODE_KEY_SIZE),
            leaf_node_value(cell_num)),
        NODE_INTERNAL)

\* leaf_node_insert on a node with room: the node afterwards.
LeafNodeStore(node, cell_num, key, value) ==
    db_serialize_row(value,
        memcpy(set_leaf_node_num_cells(
                   ShiftCells(node, leaf_node_num_cells(node), cell_num),
                   leaf_node_num_cells(node) + 1),
               leaf_node_key(cell_num), key, 0, LEAF_NODE_KEY_SIZE),
        leaf_node_value(cell_num))

\* leaf_node_insert whose test for a full node lets one more cell in.
leaf_node_insert_one_more(t, cursor, key, value) ==
    IF leaf_node_num_cells(t.pager.pages[cursor.page_num]) > LEAF_NODE_MAX_CELLS
    THEN [exit |-> TRUE, table |-> t]
    ELSE [exit  |-> FALSE,
          table |-> [t EXCEPT !.pager.pages[cursor.page_num] =
                         LeafNodeStore(@, cursor.cell_num, key, value)]]

\* leaf_node_insert(cursor, key, value); `exit` tells that it printed
\* "Need to implement splitting a leaf node." and called exit(EXIT_FAILURE).
leaf_node_insert(t, cursor, key, value) ==
    IF leaf_node_num_cells(t.pager.pages[cursor.page_num]) >= LEAF_NODE_MAX_CELLS
    THEN [exit |-> TRUE, table |-> t]
    ELSE [exit  |-> FALSE,
          table |-> [t EXCEPT !.pager.pages[cursor.page_num] =
                         LeafNodeStore(@, cursor.cell_num, key, value)]]

\* execute_insert after its table_find answered found.
InsertAtCursor(stmt, found, ins) ==
    IF /\ found.cursor.cell_num
              < leaf_node_num_cells(found.table.pager.pages[found.cursor.page_num])
       /\ KeyAt(found.table.pager.pages[found.cursor.page_num],
                found.cursor.cell_num) = stmt.row_to_insert.id
    THEN [result |-> "EXECUTE_DUPLICATE_KEY", table |-> found.table]
    ELSE IF ins.exit THEN [result |-> "exit", table |-> ins.table]
    ELSE [result |-> "EXECUTE_SUCCESS", table |-> ins.table]

InsertFound(stmt, found) ==
    InsertAtCursor(stmt, found,
                   leaf_node_insert(found.table, found.cursor,
                                    stmt.row_to_insert.id, stmt.row_to_insert))

\* execute_insert(statement, table) of db.c
db_execute_insert(stmt, t, f) ==
    InsertFound(stmt, table_find(t, f, stmt.row_to_insert.id))

\* The loop of execute_select.
RECURSIVE SelectFrom(_, _, _, _)
SelectFrom(t, f, cursor, rows) ==
    IF cursor.end_of_table
    THEN [result |-> "EXECUTE_SUCCESS", table |-> t, rows |-> rows]
    ELSE SelectFrom(WithPage(t, f, cursor.page_num), f,
                    cursor_advance(WithPage(t, f, cursor.page_num), cursor),
                    Append(rows,
                           db_deserialize_row(
                               WithPage(t, f, cursor.page_num)
                                   .pager.pages[cursor.page_num],
                               leaf_node_value(cursor.cell_num))))

SelectStart(f, start) == SelectFrom(start.table, f, start.cursor, <<>>)

\* execute_select(statement, table) of db.c
db_execute_select(stmt, t, f) == SelectStart(f, table_start(t, f))

(***************************************************************************)
(* The program db.c: one action for each way an iteration of its loop ends *)
(***************************************************************************)
\* insert 1 a b, ..., insert 4 a b / insert -1 a b / a username one
\* character longer than its column / insert 1 (too few arguments) /
\* select / .exit / update
DbLines ==
    { InsertLine(<<48 + k>>, <<97>>, <<98>>) : k \in 1..(LEAF_NODE_MAX_CELLS + 1) }
    \cup { InsertLine(<<45, 49>>, <<97>>, <<98>>),
           InsertLine(<<49>>, Rep(97, COLUMN_USERNAME_SIZE + 1), <<98>>),
           S_insert \o <<32, 49>>,
           S_select,
           S_exit,
           <<117, 112, 100, 97, 116, 101>> }

\* `Statement statement;` of db.c, with nothing initialized.
db_FreshStatement(j) ==
    [type |-> "indeterminate",
     row_to_insert |-> [id       |-> Rep(j, ID_SIZE),
                        username |-> Rep(j, db_USERNAME_SIZE),
                        email    |-> Rep(j, db_EMAIL_SIZE)]]

\* A run of db.c starts on the file: db_open(filename), new_input_buffer().
DbStart ==
    /\ pc' = "running"
    /\ exit_status' = "none"
    /\ input_buffer' = <<>>
    /\ statement' = db_FreshStatement(junk')
    /\ table' = db_open(file)
    /\ message' = ""
    /\ selected' = <<>>
    /\ overrun' = FALSE
    /\ inserted' = <<>>
    /\ table0' = table'
    /\ syscalls' = <<>>

DbInit ==
    /\ junk \in Indeterminate
    /\ file = <<>>
    /\ syscalls = <<>>
    /\ stdin = <<>>
    /\ buffer_length = 0
    /\ pc = "running"
    /\ exit_status = "none"
    /\ input_buffer = <<>>
    /\ statement = db_FreshStatement(junk)
    /\ table = db_open(file)
    /\ message = ""
    /\ selected = <<>>
    /\ overrun = FALSE
    /\ inserted = <<>>
    /\ table0 = table
    /\ closed_rows = [clean |-> FALSE, rows |-> <<>>]

\* read_input with db_close called before the exit on a failed read.
DbReadEof_closing ==
    /\ pc = "running"
    /\ pc' = "exited"
    /\ exit_status' = "EXIT_FAILURE"
    /\ message' = "Error reading input"
    /\ selected' = <<>>
    /\ table0' = table
    /\ closed_rows' = [clean |-> FALSE, rows |-> <<>>]
    /\ statement' = db_FreshStatement(junk)
    /\ file' = db_close(table, file).file
    /\ UNCHANGED <<stdin, buffer_length, syscalls, junk, input_buffer, table, inserted, overrun>>

\* read_input: getline reports the end of the input; nothing is closed.
DbReadEof ==
    /\ pc = "running"
    /\ pc' = "exited"
    /\ exit_status' = "EXIT_FAILURE"
    /\ message' = "Error reading input"
    /\ selected' = <<>>
    /\ table0' = table
    /\ closed_rows' = [clean |-> FALSE, rows |-> <<>>]
    /\ statement' = db_FreshStatement(junk)
    /\ UNCHANGED <<stdin, buffer_length, file, syscalls, junk, input_buffer, table, inserted, overrun>>

\* ".exit": do_meta_command calls db_close and exits.
DbMetaExit(L) ==
    /\ pc = "running"
    /\ \E line \in L :
        \E c \in {db_close(table, file)} :
        /\ FirstChar(line) = 46
        /\ strcmp0(line, S_exit)
        /\ input_buffer' = line
        /\ file' = c.file
        /\ table' = c.table
        /\ pc' = "exited"
        /\ exit_status' = "EXIT_SUCCESS"
        /\ message' = ""
        /\ selected' = <<>>
        /\ table0' = table
        /\ closed_rows' = [clean |-> TRUE,
                           rows  |-> db_execute_select(statement, table, file).rows]
        /\ statement' = db_FreshStatement(junk)
        /\ UNCHANGED <<stdin, buffer_length, junk, inserted, overrun>>
        /\ syscalls' = c.calls \o <<<<"exit", "EXIT_SUCCESS">>>>

\* prepare_statement answers anything but PREPARE_SUCCESS.
DbPrepareError(L) ==
    \E line \in L :
        \E p \in {db_prepare_statement(line, db_FreshStatement(junk))} :
        /\ pc = "running"
        /\ FirstChar(line) # 46
        /\ p.result # "PREPARE_SUCCESS"
        /\ input_buffer' = p.buffer
        /\ statement' = p.statement
        /\ message' = p.result
        /\ selected' = <<>>
        /\ table0' = table
        /\ UNCHANGED <<stdin, buffer_length, file, syscalls, pc, exit_status, junk, table, inserted, overrun,
                       closed_rows>>

\* An insert is prepared and execute_insert returns.
DbInsert(L) ==
    /\ pc = "running"
    /\ \E line \in L :
        \E p \in {db_prepare_statement(line, db_FreshStatement(junk))} :
        /\ FirstChar(line) # 46
        /\ p.result = "PREPARE_SUCCESS"
        /\ p.statement.type = "STATEMENT_INSERT"
        /\ \E x \in {db_execute_insert(p.statement, table, file)} :
            /\ x.result # "exit"
            /\ input_buffer' = p.buffer
            /\ statement' = p.statement
            /\ table' = x.table
            /\ message' = IF x.result = "EXECUTE_SUCCESS" THEN "Executed."
                          ELSE "Error: Duplicate key."
            /\ selected' = <<>>
            /\ inserted' = IF x.result = "EXECUTE_SUCCESS"
                           THEN Append(inserted, p.statement.row_to_insert)
                           ELSE inserted
            /\ table0' = table
            /\ UNCHANGED <<stdin, buffer_length, file, syscalls, pc, exit_status, junk, overrun, closed_rows>>

\* An insert is prepared and leaf_node_insert finds the leaf full: it
\* prints its message and calls exit(EXIT_FAILURE); nothing is closed.
DbInsertLeafFull(L) ==
    /\ pc = "running"
    /\ \E line \in L :
        \E p \in {db_prepare_statement(line, db_FreshStatement(junk))} :
        /\ FirstChar(line) # 46
        /\ p.result = "PREPARE_SUCCESS"
        /\ p.statement.type = "STATEMENT_INSERT"
        /\ \E x \in {db_execute_insert(p.statement, table, file)} :
            /\ x.result = "exit"
            /\ input_buffer' = p.buffer
            /\ statement' = p.statement
            /\ table' = x.table
            /\ pc' = "exited"
            /\ exit_status' = "EXIT_FAILURE"
            /\ message' = "Need to implement splitting a leaf node."
            /\ selected' = <<>>
            /\ table0' = table
            /\ closed_rows' = [clean |-> FALSE, rows |-> <<>>]
            /\ UNCHANGED <<stdin, buffer_length, file, syscalls, junk, inserted, overrun>>

\* A select is prepared and executed.
DbSelect(L) ==
    /\ pc = "running"
    /\ \E line \in L :
        \E p \in {db_prepare_statement(line, db_FreshStatement(junk))} :
        /\ FirstChar(line) # 46
        /\ p.result = "PREPARE_SUCCESS"
        /\ p.statement.type = "STATEMENT_SELECT"
        /\ \E x \in {db_execute_select(p.statement, table, file)} :
            /\ input_buffer' = p.buffer
            /\ statement' = p.statement
            /\ table' = x.table
            /\ message' = "Executed."
            /\ selected' = x.rows
            /\ table0' = table
            /\ UNCHANGED <<stdin, buffer_length, file, syscalls, pc, exit_status, junk, inserted, overrun, closed_rows>>

\* The program is started again on the same file.
DbRestart ==
    /\ pc # "running"
    /\ junk' \in Indeterminate
    /\ DbStart
    /\ UNCHANGED <<stdin, buffer_length, file, closed_rows>>

DbNext ==
    \/ DbReadEof
    \/ DbMetaExit(DbLines)
    \/ DbPrepareError(DbLines)
    \/ DbInsert(DbLines)
    \/ DbInsertLeafFull(DbLines)
    \/ DbSelect(DbLines)
    \/ DbRestart

SpecDb == DbInit /\ [][DbNext]_vars

(***************************************************************************)
(* Properties of db.c                                                      *)
(***************************************************************************)
\* The rows a traversal of table t yields.
DbStoredRows(t) == db_execute_select(statement, t, file).rows

\* The pages a traversal of t visits, in order, from page page_num on.
RECURSIVE LeafChain(_, _, _)
LeafChain(t, page_num, fuel) ==
    IF fuel = 0 \/ t.pager.pages[page_num] = NULL THEN <<>>
    ELSE IF leaf_node_next_leaf(t.pager.pages[page_num]) = 0 THEN <<page_num>>
    ELSE <<page_num>> \o LeafChain(t, leaf_node_next_leaf(t.pager.pages[page_num]),
                                   fuel - 1)

\* The keys of the leaf on page page_num of t, in cell order.
LeafKeys(t, page_num) ==
    [i \in 1..leaf_node_num_cells(t.pager.pages[page_num]) |->
        KeyAt(t.pager.pages[page_num], i - 1)]

\* The last command was an insert that prepare_statement accepted.
DbInsertPrepared ==
    /\ statement.type = "STATEMENT_INSERT"
    /\ message \in {"Executed.", "Error: Duplicate key.",
                    "Need to implement splitting a leaf node."}

KeyStored(t, key) ==
    \E i \in 1..Len(DbStoredRows(t)) : DbStoredRows(t)[i].id = key

\* C9: an insert of a key that is not stored succeeds; it adds a leaf
\* (the leaf splits) exactly when the leaf held LEAF_NODE_MAX_CELLS cells.
C9_LeafCapacityBoundary ==
    (/\ DbInsertPrepared
     /\ ~KeyStored(table0, statement.row_to_insert.id))
    => /\ pc = "running"
       /\ message = "Executed."
       /\ KeyStored(table, statement.row_to_insert.id)
       /\ Len(LeafChain(table, 0, db_TABLE_MAX_PAGES))
              > Len(LeafChain(table0, 0, db_TABLE_MAX_PAGES))
          <=> Len(DbStoredRows(table0)) = LEAF_NODE_MAX_CELLS

\* The rows stored by this run before its last command.
StoredBefore == IF message = "Executed." THEN SubSeq(inserted, 1, Len(inserted) - 1)
                ELSE inserted

\* C10: after LEAF_NODE_MAX_CELLS + 1 ascending keys were inserted into a
\* new database, the insert of the last has succeeded, a traversal visits
\* two leaves, every key of the first is smaller than every key of the
\* second, and their cells are LEAF_NODE_MAX_CELLS + 1 together.
C10_SplitCorrectness ==
    (/\ DbInsertPrepared
     /\ file = <<>>
     /\ Len(StoredBefore) = LEAF_NODE_MAX_CELLS
     /\ Ascending(StoredBefore \o <<statement.row_to_insert>>))
    => /\ pc = "running"
       /\ message = "Executed."
       /\ Len(LeafChain(table, 0, db_TABLE_MAX_PAGES)) = 2
       /\ \A i \in DOMAIN LeafKeys(table, LeafChain(table, 0, 2)[1]) :
            \A j \in DOMAIN LeafKeys(table, LeafChain(table, 0, 2)[2]) :
                U32Less(LeafKeys(table, LeafChain(table, 0, 2)[1])[i],
                        LeafKeys(table, LeafChain(table, 0, 2)[2])[j])
       /\ Len(DbStoredRows(table)) = LEAF_NODE_MAX_CELLS + 1

(***************************************************************************)
(* The pager of db.c under any caller: pages are asked for in any order    *)
(* and bytes are stored through the pointers get_page answers.             *)
(***************************************************************************)
\* Offsets into a page where a caller stores a byte: the last byte of
\* the page.
StoreOffsets == {db_PAGE_SIZE - 1}

\* A caller calls get_page(table->pager, n).
PgGetPage ==
    /\ pc = "running"
    /\ \E n \in db_PageIndex :
        /\ table' = WithPage(table, file, n)
        /\ table0' = table'
    /\ UNCHANGED <<stdin, buffer_length, file, syscalls, pc, exit_status, junk, statement, message, input_buffer,
                   selected, overrun, inserted, closed_rows>>

\* A caller calls get_page(table->pager, n) and stores a byte through the
\* pointer it answers.
PgStore ==
    /\ pc = "running"
    /\ \E n \in db_PageIndex :
        \E off \in StoreOffsets :
        /\ table' = [WithPage(table, file, n) EXCEPT
                        !.pager.pages[n][off + 1] = (@ + 1) % 2]
        /\ table0' = table'
    /\ UNCHANGED <<stdin, buffer_length, file, syscalls, pc, exit_status, junk, statement, message, input_buffer,
                   selected, overrun, inserted, closed_rows>>

PagerNext ==
    \/ PgGetPage
    \/ PgStore
    \/ DbMetaExit({S_exit})
    \/ DbReadEof
    \/ DbRestart

SpecPager == DbInit /\ [][PagerNext]_vars

\* C11: when .exit has ended the process, what was done to the file is:
\* one write for every page that was cached, at the offset of the page,
\* and for no other page; then the close of the file; then the exit with
\* success.
C11_OrderlyShutdown ==
    (pc = "exited" /\ exit_status = "EXIT_SUCCESS")
    => /\ Len(syscalls) >= 2
       /\ syscalls[Len(syscalls)] = <<"exit", "EXIT_SUCCESS">>
       /\ syscalls[Len(syscalls) - 1] = <<"close", 3>>
       /\ \A k \in 1..(Len(syscalls) - 2) : syscalls[k][1] = "write"
       /\ \A i \in db_PageIndex :
            Cardinality({k \in 1..(Len(syscalls) - 2) :
                            syscalls[k] = <<"write", i, i * db_PAGE_SIZE>>})
            = IF table0.pager.pages[i] # NULL THEN 1 ELSE 0
       /\ Len(syscalls) - 2
          = Cardinality({i \in db_PageIndex : table0.pager.pages[i] # NULL})

\* .exit with two pages in the cache.
C11_Witness ==
    /\ pc = "exited"
    /\ exit_status = "EXIT_SUCCESS"
    /\ table0.pager.pages[0] # NULL
    /\ table0.pager.pages[1] # NULL
    /\ Len(syscalls) = 4

\* C12: no step of a run changes the bytes or the length of the file
\* except the .exit that closes the table: opening the table, get_page,
\* insert, select and the end of a run on a failed read leave the file as
\* it was.
C12_NoWriteBeforeClose ==
    [][file' = file
       \/ (pc = "running" /\ pc' = "exited" /\ exit_status' = "EXIT_SUCCESS")]_vars

\* A run on a file that was written before has inserted rows and has
\* ended on a failed read, without the close.
C12_Witness ==
    /\ pc = "exited"
    /\ exit_status = "EXIT_FAILURE"
    /\ Len(inserted) > 0
    /\ file # <<>>
    /\ DbStoredRows(table) # DbStoredRows(db_open(file))

\* What the disk could hold instead of f: nothing, or other bytes of the
\* same length.
OtherDisks(f) == {<<>>, [i \in 1..Len(f) |-> (f[i] + 1) % 256]}

\* The bytes the file f holds at page page_num.
DiskPage(f, page_num) ==
    SubSeq(f, page_num * db_PAGE_SIZE + 1, (page_num + 1) * db_PAGE_SIZE)

\* C13: while a run lasts, get_page(n) of a page that is not in the cache
\* and lies inside the file answers the bytes the file holds at page n; and
\* get_page(n) of a page that is in the cache answers that same buffer and
\* leaves the pager as it is whatever the disk holds, so what was stored
\* through the page earlier is what the caller gets.
C13_CacheCoherence ==
    pc = "running"
    => \A n \in db_PageIndex :
        IF table.pager.pages[n] = NULL
        THEN n < table.pager.file_length \div db_PAGE_SIZE
             => get_page(table.pager, file, n).pages[n] = DiskPage(file, n)
        ELSE /\ get_page(table.pager, file, n) = table.pager
             /\ \A g \in OtherDisks(file) :
                    get_page(table.pager, g, n) = table.pager

\* A page of the file is in the cache and a store has made it differ from
\* what the file holds; another page of the file is not in the cache yet.
C13_Witness ==
    /\ pc = "running"
    /\ Len(file) = 2 * db_PAGE_SIZE
    /\ \E n \in db_PageIndex :
        /\ table.pager.pages[n] # NULL
        /\ table.pager.pages[n] # DiskPage(file, n)
    /\ \E n \in db_PageIndex : table.pager.pages[n] = NULL

\* C14: while a run lasts, get_page(n) for a page number at or above the
\* pager's count of pages leaves in the cache a page whose bytes are all
\* zero and makes the count n + 1; and get_page of any page never makes
\* the count smaller.
C14_NewPageZeroed ==
    pc = "running"
    => \A n \in db_PageIndex :
        \A p \in {get_page(table.pager, file, n)} :
            /\ p.num_pages >= table.pager.num_pages
            /\ n >= table.pager.num_pages
               => /\ p.num_pages = n + 1
                  /\ p.pages[n] = Rep(0, db_PAGE_SIZE)

(***************************************************************************)
(* get_page for a page number the cache has no slot for.  get_page has no  *)
(* test of page_num against TABLE_MAX_PAGES: pager->pages[page_num] is     *)
(* read past the end of the array, which is the end of the block malloc    *)
(* gave for the Pager.  What the word there holds is not defined.          *)
(***************************************************************************)
\* The page numbers past the cache a caller asks for.
BeyondPages == {db_TABLE_MAX_PAGES, db_TABLE_MAX_PAGES + 1}

\* The word read past the array is not NULL: get_page answers it as the
\* page and leaves the pager alone.  Or it is NULL: get_page stores the
\* pointer malloc answers past the array and raises num_pages.
PgGetPageBeyond ==
    /\ pc = "running"
    /\ \E n \in BeyondPages :
        \E word_is_null \in BOOLEAN :
        /\ table' = IF word_is_null /\ n >= table.pager.num_pages
                    THEN [table EXCEPT !.pager.num_pages = n + 1]
                    ELSE table
        /\ table0' = table'
        /\ overrun' = TRUE
    /\ UNCHANGED <<stdin, buffer_length, file, syscalls, pc, exit_status, junk, statement, message,
                   input_buffer, selected, inserted, closed_rows>>

\* The read past the array is outside the memory of the process: the run
\* dies on the access.
PgGetPageBeyondFault ==
    /\ pc = "running"
    /\ pc' = "crashed"
    /\ overrun' = TRUE
    /\ table0' = table
    /\ UNCHANGED <<stdin, buffer_length, file, syscalls, exit_status, junk, statement, message, table,
                   input_buffer, selected, inserted, closed_rows>>

PagerBeyondNext ==
    \/ PgGetPage
    \/ PgStore
    \/ PgGetPageBeyond
    \/ PgGetPageBeyondFault
    \/ DbReadEof
    \/ DbRestart

SpecPagerBeyond == DbInit /\ [][PagerBeyondNext]_vars

\* C15: get_page never reads or writes the cache at an index outside
\* 0..TABLE_MAX_PAGES-1, and the pager never counts more pages than the
\* cache has slots: a request past the cache ends the run before the access.
C15_PageOutOfBounds ==
    /\ ~overrun
    /\ pc # "crashed"
    /\ pc = "running" => table.pager.num_pages <= db_TABLE_MAX_PAGES

\* Table t is what opening the file f has to leave: the root is page 0;
\* for an empty file page 0 is in the cache as a leaf with no cells, no
\* next leaf and the root flag set; for a file that holds pages no page is
\* in the cache, so none was touched.
OpenedRight(f, t) ==
    /\ t.root_page_num = 0
    /\ IF Len(f) = 0
       THEN /\ t.pager.pages[0] # NULL
            /\ get_node_type(t.pager.pages[0]) = NODE_LEAF
            /\ leaf_node_num_cells(t.pager.pages[0]) = 0
            /\ leaf_node_next_leaf(t.pager.pages[0]) = 0
            /\ t.pager.pages[0][IS_ROOT_OFFSET + 1] = 1
       ELSE /\ \A i \in db_PageIndex : t.pager.pages[i] = NULL
            /\ t.pager.num_pages = Len(f) \div db_PAGE_SIZE

\* C16: the table a run starts with is the one OpenedRight describes, for
\* the first run on the empty file and for every later run on the file the
\* runs before it left; and opening leaves the file as it is.
C16_TableOpen ==
    /\ OpenedRight(file, table)
    /\ [][(pc # "running" /\ pc' = "running")
          => (file' = file /\ OpenedRight(file', table'))]_vars

\* A run has just been started on a file that holds a page with rows.
C16_Witness ==
    /\ pc = "running"
    /\ Len(file) >= db_PAGE_SIZE
    /\ Len(closed_rows.rows) > 0
    /\ \A i \in db_PageIndex : table.pager.pages[i] = NULL

\* C17: when .exit has closed the table, the length of the file is a
\* multiple of the page size, and for every page that was in the cache the
\* file holds, at page_num * PAGE_SIZE, the bytes the page had.
C17_CleanCloseLayout ==
    (pc = "exited" /\ exit_status = "EXIT_SUCCESS")
    => /\ Len(file) % db_PAGE_SIZE = 0
       /\ \A i \in db_PageIndex :
            table0.pager.pages[i] # NULL
            => /\ Len(file) >= (i + 1) * db_PAGE_SIZE
               /\ DiskPage(file, i) = table0.pager.pages[i]

\* .exit with two pages in the cache, the second one with a byte stored
\* by the caller.
C17_Witness ==
    /\ pc = "exited"
    /\ exit_status = "EXIT_SUCCESS"
    /\ table0.pager.pages[0] # NULL
    /\ table0.pager.pages[1] # NULL
    /\ table0.pager.pages[1][db_PAGE_SIZE] = 1
    /\ Len(file) = 2 * db_PAGE_SIZE

\* C18: a run has ended only because the line .exit was entered, and then
\* with success, or because reading the input failed, and then with
\* failure; no other line ends the run, so after every other line the
\* loop of main is back at read_input.
C18_ReplEndsOnlyOnExitOrEof ==
    /\ pc \in {"running", "exited"}
    /\ pc = "exited"
       => \/ /\ exit_status = "EXIT_SUCCESS"
             /\ strcmp0(input_buffer, S_exit)
          \/ /\ exit_status = "EXIT_FAILURE"
             /\ message = "Error reading input"

(***************************************************************************)
(* The REPL of src/unnamed/part_000: the same read_input, do_meta_command  *)
(* and prepare_statement as start.c, an execute_statement that prints what *)
(* it would do, and no table.  The switch of main on the result of         *)
(* prepare_statement has a case for PREPARE_SUCCESS and one for            *)
(* PREPARE_UNRECOGNIZED_STATEMENT, and none for PREPARE_SYNTAX_ERROR.      *)
(***************************************************************************)
\* The tokens of the lines typed: ids 1, 2, 3, -1; usernames a, c; emails
\* b, dd, e.
Repl0Ids == {<<49>>, <<50>>, <<51>>, <<45, 49>>}

Repl0Usernames == {<<97>>, <<99>>}

Repl0Emails == {<<98>>, <<100, 100>>, <<101>>}

\* Every insert of those tokens; insert / insert 1 / insert 1 a / insert x
\* a b (too few conversions); select; .exit; .tables; update
Repl0Lines ==
    {InsertLine(id, u, e) : id \in Repl0Ids, u \in Repl0Usernames, e \in Repl0Emails}
    \cup { S_insert,
           S_insert \o <<32, 49>>,
           S_insert \o <<32, 49, 32, 97>>,
           InsertLine(<<120>>, <<97>>, <<98>>),
           S_select,
           S_exit,
           <<46, 116, 97, 98, 108, 101, 115>>,
           <<117, 112, 100, 97, 116, 101>> }

\* ".exit": do_meta_command exits.
Repl0MetaExit(L) ==
    \E line \in L :
        /\ pc = "running"
        /\ FirstChar(line) = 46
        /\ strcmp0(line, S_exit)
        /\ input_buffer' = line
        /\ pc' = "exited"
        /\ exit_status' = "EXIT_SUCCESS"
        /\ message' = ""
        /\ statement' = FreshStatement(junk)
        /\ UNCHANGED <<stdin, buffer_length, file, syscalls, junk, table, table0, selected, overrun,
                       inserted, closed_rows>>

\* The results of prepare_statement for which the switch of main goes on
\* to execute_statement: PREPARE_SUCCESS by its case, PREPARE_SYNTAX_ERROR
\* because no case names it.
Repl0FallsToExecute == {"PREPARE_SUCCESS", "PREPARE_SYNTAX_ERROR"}

\* main goes on to execute_statement(&statement) and prints "Executed.".
Repl0Execute(L) ==
    \E line \in L :
        \E p \in {prepare_statement(line, FreshStatement(junk))} :
        /\ pc = "running"
        /\ FirstChar(line) # 46
        /\ p.result \in Repl0FallsToExecute
        /\ ~p.overrun
        /\ input_buffer' = line
        /\ statement' = p.statement
        /\ message' = "Executed."
        /\ UNCHANGED <<stdin, buffer_length, file, syscalls, pc, exit_status, junk, table, table0, selected,
                       overrun, inserted, closed_rows>>

Repl0Next ==
    \/ ReadEof
    \/ Repl0MetaExit(Repl0Lines)
    \/ MetaUnrecognized(Repl0Lines)
    \/ PrepareUnrecognized(Repl0Lines)
    \/ Repl0Execute(Repl0Lines)

SpecRepl0 == Init /\ [][Repl0Next]_vars

\* The line last read is one that prepare_statement does not answer with
\* PREPARE_SUCCESS, or a meta-command other than .exit.
NotPrepared ==
    /\ input_buffer # <<>>
    /\ IF FirstChar(input_buffer) = 46
       THEN ~strcmp0(input_buffer, S_exit)
       ELSE prepare_statement(input_buffer, FreshStatement(junk)).result
            # "PREPARE_SUCCESS"

\* C19: after a line that is an unrecognized meta-command, starts with an
\* unrecognized keyword or is an insert with fewer than three arguments
\* that scan, the answer is not "Executed." and the table is as it was.
C19_OnlyPreparedExecuted ==
    (pc = "running" /\ NotPrepared)
    => /\ message # "Executed."
       /\ table = table0

\* Cell i of a leaf: its key and its row, as bytes.
Cell(node, i) ==
    SubSeq(node, leaf_node_cell(i) + 1, leaf_node_cell(i) + LEAF_NODE_CELL_SIZE)

\* The root leaf as the last command found it.
OldLeaf == get_page(table0.pager, file, table0.root_page_num).pages[table0.root_page_num]

\* The cell table_find placed the cursor on for the key of the last insert.
CursorIndex == table_find(table0, file, statement.row_to_insert.id).cursor.cell_num

\* The last command was an insert that leaf_node_insert stored.
LeafInsertDone ==
    /\ pc = "running"
    /\ statement.type = "STATEMENT_INSERT"
    /\ message = "Executed."

\* C20: after leaf_node_insert stored a row at cell c of a leaf that held
\* n cells, the leaf holds n + 1 cells; cells 0..c-1 are as they were;
\* cell c is the key and the serialized row; cells c+1..n are the former
\* cells c..n-1 in their order; the rest of the header of the leaf and
\* every other page are as they were.
C20_LeafInsertShifts ==
    LeafInsertDone
    => \A c \in {CursorIndex} :
       \A n \in {leaf_node_num_cells(OldLeaf)} :
       \A node \in {table.pager.pages[table0.root_page_num]} :
        /\ c <= n
        /\ leaf_node_num_cells(node) = n + 1
        /\ \A i \in 0..(c - 1) : Cell(node, i) = Cell(OldLeaf, i)
        /\ Cell(node, c)
           = statement.row_to_insert.id
             \o db_serialize_row(statement.row_to_insert, Rep(0, db_ROW_SIZE), 0)
        /\ \A i \in (c + 1)..n : Cell(node, i) = Cell(OldLeaf, i - 1)
        /\ SubSeq(node, 1, COMMON_NODE_HEADER_SIZE)
           = SubSeq(OldLeaf, 1, COMMON_NODE_HEADER_SIZE)
        /\ leaf_node_next_leaf(node) = leaf_node_next_leaf(OldLeaf)
        /\ \A p \in db_PageIndex \ {table0.root_page_num} :
                table.pager.pages[p] = table0.pager.pages[p]

\* An insert in front of two cells: both were moved.
C20_Witness ==
    /\ LeafInsertDone
    /\ CursorIndex = 0
    /\ leaf_node_num_cells(OldLeaf) = 2

\* An insert between two cells.
C20_WitnessMiddle ==
    /\ LeafInsertDone
    /\ CursorIndex = 1
    /\ leaf_node_num_cells(OldLeaf) = 2

\* The keys looked up: 0 .. LEAF_NODE_MAX_CELLS + 2, and the key an id of
\* -1 is stored as.
FindKeys ==
    {U32Bytes(k) : k \in 0..(LEAF_NODE_MAX_CELLS + 2)} \cup {Rep(255, ID_SIZE)}

\* Cursor index c in leaf node is the place of key: every cell before it
\* has a smaller key, and the cell at it, if there is one, has the key or
\* a greater one.
PlaceOfKey(node, c, key) ==
    /\ c \in 0..leaf_node_num_cells(node)
    /\ \A i \in 0..(c - 1) : U32Less(KeyAt(node, i), key)
    /\ c < leaf_node_num_cells(node)
       => (KeyAt(node, c) = key \/ U32Less(key, KeyAt(node, c)))

CellsFit(node) ==
    /\ leaf_node_num_cells(node)
       <= (db_PAGE_SIZE - LEAF_NODE_HEADER_SIZE) \div LEAF_NODE_CELL_SIZE
    /\ leaf_node_cell(leaf_node_num_cells(node)) <= db_PAGE_SIZE

C23_TableStart ==
    pc = "running"
    => \A start \in {table_start(table, file)} :
        /\ start.cursor.page_num = table.root_page_num
        /\ get_node_type(start.table.pager.pages[start.cursor.page_num]) = NODE_LEAF
        /\ start.cursor.cell_num = 0
        /\ start.cursor.end_of_table
           <=> leaf_node_num_cells(
                   start.table.pager.pages[start.cursor.page_num]) = 0

\* A run started on a file with rows: table_start brings the root into
\* the cache and the cursor is not at the end.
C23_Witness ==
    /\ pc = "running"
    /\ table.pager.pages[0] = NULL
    /\ Len(file) >= db_PAGE_SIZE
    /\ ~table_start(table, file).cursor.end_of_table
    /\ leaf_node_num_cells(table_start(table, file).table.pager.pages[0]) = 2

\* The most steps a traversal of a table can take: one for every cell of
\* every page.
MaxAdvances == db_TABLE_MAX_PAGES * LEAF_NODE_MAX_CELLS

\* Whether cursor_advance, applied to cursor at most fuel times, sets
\* end_of_table.
RECURSIVE ReachesEnd(_, _, _, _)
ReachesEnd(t, f, cursor, fuel) ==
    IF cursor.end_of_table THEN TRUE
    ELSE IF fuel = 0 THEN FALSE
    ELSE ReachesEnd(WithPage(t, f, cursor.page_num), f,
                    cursor_advance(WithPage(t, f, cursor.page_num), cursor),
                    fuel - 1)

\* The number of leaves on the chain from page_num on, fuel at most; more
\* than fuel leaves, or a cycle, give fuel + 1.
RECURSIVE ChainLength(_, _, _, _)
ChainLength(t, f, page_num, fuel) ==
    IF fuel = 0 THEN 1
    ELSE IF leaf_node_next_leaf(WithPage(t, f, page_num).pager.pages[page_num]) = 0
    THEN 1
    ELSE 1 + ChainLength(WithPage(t, f, page_num), f,
                         leaf_node_next_leaf(
                             WithPage(t, f, page_num).pager.pages[page_num]),
                         fuel - 1)

\* C24: while a run lasts, cursor_advance applied again and again from
\* table_start sets end_of_table within as many steps as the table has
\* room for cells, and the chain of next_leaf from the first leaf ends at
\* the sentinel 0 within as many leaves as there are pages.
C24_TraversalTerminates ==
    pc = "running"
    => /\ ReachesEnd(table_start(table, file).table, file,
                     table_start(table, file).cursor, MaxAdvances)
       /\ ChainLength(table, file, 0, db_TABLE_MAX_PAGES) <= db_TABLE_MAX_PAGES

\* A traversal of a full leaf: LEAF_NODE_MAX_CELLS steps and not one less.
C24_Witness ==
    /\ pc = "running"
    /\ table.pager.pages[0] # NULL
    /\ leaf_node_num_cells(table.pager.pages[0]) = LEAF_NODE_MAX_CELLS
    /\ ReachesEnd(table, file, table_start(table, file).cursor, LEAF_NODE_MAX_CELLS)
    /\ ~ReachesEnd(table, file, table_start(table, file).cursor,
                   LEAF_NODE_MAX_CELLS - 1)

\* The node type of page i as the table and the file have it: that of the
\* page in the cache, else that of the page in the file, else none.  The
\* only pages db.c initializes or stores into are pages it reached from
\* the root.
NodeTypeOfPage(t, f, i) ==
    IF t.pager.pages[i] # NULL THEN get_node_type(t.pager.pages[i])
    ELSE IF Len(f) >= (i + 1) * db_PAGE_SIZE THEN get_node_type(DiskPage(f, i))
    ELSE -1

\* C25: a page that has a node type keeps it in every step: no insert,
\* select, close or new run on the file changes the type of a page.
C25_NodeTypePermanent ==
    [][\A i \in db_PageIndex :
          NodeTypeOfPage(table, file, i) \in {NODE_LEAF, NODE_INTERNAL}
          => NodeTypeOfPage(table', file', i) = NodeTypeOfPage(table, file, i)]_vars

\* The root was initialized in an earlier run, written to the file, and has
\* had a row stored into it in this run.
C25_Witness ==
    /\ pc = "running"
    /\ closed_rows.clean
    /\ Len(file) >= db_PAGE_SIZE
    /\ Len(inserted) > 0
    /\ NodeTypeOfPage(table, file, 0) = NODE_LEAF
    /\ table.pager.pages[0] # DiskPage(file, 0)

\* Whether page i of the table, as the cache or else the file has it, has
\* the root flag set; a page that is in neither has not.
IsRootPage(t, f, i) ==
    IF t.pager.pages[i] # NULL THEN t.pager.pages[i][IS_ROOT_OFFSET + 1] # 0
    ELSE IF Len(f) >= (i + 1) * db_PAGE_SIZE
    THEN DiskPage(f, i)[IS_ROOT_OFFSET + 1] # 0
    ELSE FALSE

\* C26: while a run lasts, the page numbered table.root_page_num has the
\* root flag set and no other page has.
C26_OneRoot ==
    pc = "running"
    => {i \in db_PageIndex : IsRootPage(table, file, i)} = {table.root_page_num}

\* A run on a file written by an earlier run has stored a row: the root
\* came from the file with its flag.
C26_Witness ==
    /\ pc = "running"
    /\ closed_rows.clean
    /\ Len(file) >= db_PAGE_SIZE
    /\ Len(inserted) > 0
    /\ leaf_node_num_cells(table.pager.pages[0]) >= 2
    /\ IsRootPage(table, file, 0)

(***************************************************************************)
(* Properties of start.c: addresses and layout                             *)
(***************************************************************************)
\* The bytes of the slot row_slot answers for row r, as places
\* <<page, byte>>.
SlotBytes(t, r) ==
    {<<row_slot(t, r).page_num, row_slot(t, r).byte_offset + k>> :
        k \in 0..(ROW_SIZE - 1)}

\* C27: for every row number r < TABLE_MAX_ROWS, row_slot answers page
\* r / ROWS_PER_PAGE, which is a page of the table, and the byte offset
\* (r % ROWS_PER_PAGE) * ROW_SIZE; the ROW_SIZE bytes of the slot end
\* inside the page; the slots of two row numbers share no byte; and the
\* row stored as number r is what the table holds at those bytes.
C27_RowSlotAddressing ==
    /\ \A r \in 0..(TABLE_MAX_ROWS - 1) :
        \A slot \in {row_slot(table, r)} :
            /\ slot.page_num = r \div ROWS_PER_PAGE
            /\ slot.page_num \in PageIndex
            /\ ~slot.oob
            /\ slot.byte_offset = (r % ROWS_PER_PAGE) * ROW_SIZE
            /\ slot.byte_offset + ROW_SIZE <= PAGE_SIZE
            /\ slot.pages[slot.page_num] # NULL
    /\ \A r1, r2 \in 0..(TABLE_MAX_ROWS - 1) :
        r1 # r2 => SlotBytes(table, r1) \cap SlotBytes(table, r2) = {}
    /\ pc = "running"
       => \A r \in 0..(table.num_rows - 1) :
            \A slot \in {row_slot(table, r)} :
                r < Len(inserted)
                => SubSeq(table.pages[slot.page_num], slot.byte_offset + 1,
                          slot.byte_offset + ROW_SIZE)
                   = RowMem(inserted[r + 1])

\* The table is full: a row has been stored in the last slot of the last
\* page.
C27_Witness ==
    /\ pc = "running"
    /\ table.num_rows = TABLE_MAX_ROWS
    /\ Len(inserted) = TABLE_MAX_ROWS
    /\ row_slot(table, TABLE_MAX_ROWS - 1).page_num = TABLE_MAX_PAGES - 1
    /\ row_slot(table, TABLE_MAX_ROWS - 1).byte_offset
       = (ROWS_PER_PAGE - 1) * ROW_SIZE

\* The sizes of the two columns in the program as built.
COLUMN_USERNAME_SIZE_AsBuilt == 32

COLUMN_EMAIL_SIZE_AsBuilt == 255

\* The offsets and the size of a serialized row for columns of the given
\* sizes.
RowLayout(username_size, email_size) ==
    [ID_OFFSET       |-> 0,
     USERNAME_OFFSET |-> 0 + ID_SIZE,
     EMAIL_OFFSET    |-> (0 + ID_SIZE) + username_size,
     ROW_SIZE        |-> ID_SIZE + username_size + email_size]

\* Two destinations that differ in every byte, and the places in them a
\* row is serialized to: the first slot of a page and the last.
Destinations == {Rep(7, PAGE_SIZE), Rep(8, PAGE_SIZE)}

DestinationOffsets == {0, (ROWS_PER_PAGE - 1) * ROW_SIZE}

\* serialize_row of row to offset off of dest wrote the id, the username
\* and the email to their ranges, and no other byte.
SerializedTo(row, dest, off) ==
    \A out \in {serialize_row(row, dest, off)} :
        /\ Len(out) = Len(dest)
        /\ SubSeq(out, off + 1, off + ID_SIZE) = row.id
        /\ SubSeq(out, off + USERNAME_OFFSET + 1, off + EMAIL_OFFSET) = row.username
        /\ SubSeq(out, off + EMAIL_OFFSET + 1, off + ROW_SIZE) = row.email
        /\ \A i \in 1..Len(dest) :
            (i <= off \/ i > off + ROW_SIZE) => out[i] = dest[i]

GETLINE_INITIAL_SIZE == 4

\* (*lineptr)[pos] = c on a block of Len(block) bytes: a store at an index
\* from Len(block) on lies outside the block and leaves it as it is.
PutChar(block, pos, c) ==
    IF pos < Len(block) THEN [block EXCEPT ![pos + 1] = c] ELSE block

\* realloc(block, new_size): the bytes of the block, then bytes nothing
\* has initialized.
realloc(block, new_size) == block \o malloc(new_size - Len(block))

\* The size of the block once pos characters are stored, with a growth
\* only when more characters were stored than the block holds.
Grown_too_late(pos, n) == IF pos > n THEN n * 2 ELSE n

\* The size of the block once pos characters are stored: twice n when
\* pos + 1 >= n.
Grown(pos, n) == IF pos + 1 >= n THEN n * 2 ELSE n

\* The end of my_getline: the terminator is stored at index pos and pos is
\* returned.  fits tells that every store was made inside the block.
GetlineEnd(stream, pos, n, line, ok) ==
    [ret |-> pos, line |-> PutChar(line, pos, 0), n |-> n, stream |-> stream,
     fits |-> ok /\ pos < n]

\* The loop of my_getline: pos characters are stored, n is the size of the
\* block, line the block, ok tells that every store so far was made
\* inside the block.  fgetc answers EOF when the stream is empty.
RECURSIVE GetlineLoop(_, _, _, _, _)
GetlineStored(stream, pos, n, line, ok) ==
    IF Head(stream) = 10
    THEN GetlineEnd(Tail(stream), pos, n, line, ok)
    ELSE GetlineLoop(Tail(stream), pos, n, line, ok)

GetlineLoop(stream, pos, n, line, ok) ==
    IF stream = <<>>
    THEN IF pos = 0
         THEN [ret |-> -1, line |-> line, n |-> n, stream |-> stream, fits |-> ok]
         ELSE GetlineEnd(stream, pos, n, line, ok)
    ELSE GetlineStored(stream, pos + 1, Grown(pos + 1, n),
                       realloc(PutChar(line, pos, Head(stream)),
                               Grown(pos + 1, n)),
                       ok /\ pos < n)

\* my_getline(&buffer, &n, stream) with a block of n bytes; an n of 0 is
\* that of the buffer new_input_buffer made, which is NULL, and has
\* my_getline allocate the first block.
GetlineFrom(n, stream) == GetlineLoop(stream, 0, n, malloc(n), TRUE)

my_getline(n, stream) ==
    GetlineFrom(IF n = 0 THEN GETLINE_INITIAL_SIZE ELSE n, stream)

\* read_input after my_getline returned g: the string in the buffer once
\* buffer[bytes_read - 1] = 0 is stored.
ReadInputOf(g) ==
    IF g.ret <= 0
    THEN [exit |-> TRUE, buffer |-> <<>>, input_length |-> 0,
          buffer_length |-> g.n, stream |-> g.stream]
    ELSE [exit |-> FALSE, buffer |-> SubSeq(g.line, 1, g.ret - 1),
          input_length |-> g.ret - 1,
          buffer_length |-> g.n, stream |-> g.stream]

read_input(n, stream) == ReadInputOf(my_getline(n, stream))

\* The lines typed: select / .exit / ab / an empty line
TypedLines == {S_select, S_exit, <<97, 98>>, <<>>}

\* What stands on the standard input: up to two lines that end with a
\* newline, and then nothing more, or a line more, or a line more that the
\* end of the input ends without a newline.
TypedPrefixes ==
    {<<>>} \cup {a \o <<10>> : a \in TypedLines}
           \cup {a \o <<10>> \o b \o <<10>> : a, b \in TypedLines}

Streams ==
    {p \o l : p \in TypedPrefixes, l \in TypedLines}
    \cup {p \o l \o <<10>> : p \in TypedPrefixes, l \in TypedLines}

ReadInputInit ==
    /\ \E j \in Indeterminate : Start(j)
    /\ closed_rows = [clean |-> FALSE, rows |-> <<>>]
    /\ file = <<>>
    /\ syscalls = <<>>
    /\ stdin \in Streams
    /\ buffer_length = 0

\* read_input returns with a line in the buffer.
ReadInput ==
    /\ pc = "running"
    /\ \E r \in {read_input(buffer_length, stdin)} :
        /\ ~r.exit
        /\ input_buffer' = r.buffer
        /\ buffer_length' = r.buffer_length
        /\ stdin' = r.stream
    /\ UNCHANGED <<pc, exit_status, junk, statement, table, message, selected,
                   overrun, inserted, table0, closed_rows, file, syscalls>>

\* read_input prints "Error reading input" and exits.
ReadInputFailed ==
    /\ pc = "running"
    /\ \E r \in {read_input(buffer_length, stdin)} :
        /\ r.exit
        /\ buffer_length' = r.buffer_length
        /\ stdin' = r.stream
    /\ pc' = "exited"
    /\ exit_status' = "EXIT_FAILURE"
    /\ message' = "Error reading input"
    /\ UNCHANGED <<junk, input_buffer, statement, table, selected, overrun,
                   inserted, table0, closed_rows, file, syscalls>>

ReadInputNext ==
    \/ ReadInput
    \/ ReadInputFailed

SpecReadInput == ReadInputInit /\ [][ReadInputNext]_vars

\* The characters of stream before its first newline; all of them when it
\* has none.
RECURSIVE FirstLine(_)
FirstLine(stream) ==
    IF stream = <<>> \/ Head(stream) = 10 THEN <<>>
    ELSE <<Head(stream)>> \o FirstLine(Tail(stream))

\* C29: whenever read_input returns to main, the string in the buffer is
\* the line that stood first on the input, all its characters up to the
\* newline or, for a last line without one, up to the end of the input.
C29_ReadInputKeepsLine ==
    [][(pc' = "running" /\ stdin' # stdin) => input_buffer' = FirstLine(stdin)]_vars

\* C30: in every state of start.c num_rows is at most TABLE_MAX_ROWS; the
\* call of row_slot an executed insert made, for the row number num_rows
\* had, and the calls a select makes, for every row number below num_rows,
\* index table->pages inside 0..TABLE_MAX_PAGES-1.
C30_RowSlotInBounds ==
    /\ table.num_rows <= TABLE_MAX_ROWS
    /\ (InsertExecuted /\ message = "Executed.")
       => /\ table0.num_rows < TABLE_MAX_ROWS
          /\ row_slot(table0, table0.num_rows).page_num \in PageIndex
          /\ ~row_slot(table0, table0.num_rows).oob
    /\ \A r \in 0..(table.num_rows - 1) :
        /\ row_slot(table, r).page_num \in PageIndex
        /\ ~row_slot(table, r).oob

\* A select of a full table: its last call of row_slot was for the last
\* slot of the last page.
C30_Witness ==
    /\ SelectExecuted
    /\ table.num_rows = TABLE_MAX_ROWS
    /\ Len(selected) = TABLE_MAX_ROWS
    /\ row_slot(table, TABLE_MAX_ROWS - 1).page_num = TABLE_MAX_PAGES - 1

\* The run was ended by .exit: free_table was called with table0.
ExitTyped ==
    /\ pc # "running"
    /\ input_buffer = S_exit
    /\ message = ""

\* C31: when .exit has ended the run, free_table has read table->pages at
\* no index from TABLE_MAX_PAGES on, and every page that was allocated has
\* been freed, once.
C31_FreeTableInBounds ==
    ExitTyped
    => /\ ~FreeTableReadsBeyond(table0)
       /\ \A i \in PageIndex : table.pages[i] = NULL

\* The number of pages that hold the rows 0 .. n-1: n / ROWS_PER_PAGE,
\* rounded up.
PagesHolding(n) == (n + ROWS_PER_PAGE - 1) \div ROWS_PER_PAGE

\* C32: while the table of start.c exists, pages[i] is allocated exactly
\* when i is smaller than num_rows / ROWS_PER_PAGE rounded up: the
\* allocated pages are the first ones, without a gap, and a page is there
\* only from the insert of its first row on.
C32_PagesContiguousPrefix ==
    pc = "running"
    => \A i \in PageIndex :
           table.pages[i] # NULL <=> i < PagesHolding(table.num_rows)

\* The insert of the first row of the second page allocated that page; the
\* insert before it, which filled the first page, had not.
C32_Witness ==
    /\ pc = "running"
    /\ InsertExecuted
    /\ table0.num_rows = ROWS_PER_PAGE
    /\ table0.pages[1] = NULL
    /\ table.num_rows = ROWS_PER_PAGE + 1
    /\ table.pages[1] # NULL

\* The ROW_SIZE bytes table t holds in the slot of row number r.
SlotContent(t, r) ==
    SubSeq(t.pages[row_slot(t, r).page_num],
           row_slot(t, r).byte_offset + 1,
           row_slot(t, r).byte_offset + ROW_SIZE)

\* C33: an insert answered "Executed." adds 1 to num_rows; the slot of the
\* row number num_rows had holds the serialized row of the statement; the
\* slots of the rows before keep their bytes, and so does every other byte
\* of a page that was allocated; no page but that of the new slot is
\* allocated by it.
C33_InsertFrame ==
    (InsertExecuted /\ message = "Executed.")
    => /\ table.num_rows = table0.num_rows + 1
       /\ SlotContent(table, table0.num_rows)
          = SubSeq(serialize_row(statement.row_to_insert, malloc(PAGE_SIZE), 0),
                   1, ROW_SIZE)
       /\ \A r \in 0..(table0.num_rows - 1) :
            SlotContent(table, r) = SlotContent(table0, r)
       /\ \A p \in PageIndex :
            /\ table0.pages[p] # NULL
               => \A k \in 0..(PAGE_SIZE - 1) :
                    <<p, k>> \notin SlotBytes(table0, table0.num_rows)
                    => table.pages[p][k + 1] = table0.pages[p][k + 1]
            /\ (table0.pages[p] = NULL
                /\ p # row_slot(table0, table0.num_rows).page_num)
               => table.pages[p] = NULL

\* An insert into the second slot of the second page, after three rows.
C33_Witness ==
    /\ InsertExecuted
    /\ message = "Executed."
    /\ table0.num_rows = ROWS_PER_PAGE + 1
    /\ table.num_rows = ROWS_PER_PAGE + 2
    /\ SlotContent(table, 0) # SlotContent(table, ROWS_PER_PAGE + 1)

C35_CachedBelowNumPages ==
    /\ pc = "running"
       => \A i \in db_PageIndex :
            table.pager.pages[i] # NULL => i < table.pager.num_pages
    /\ (pc = "exited" /\ exit_status = "EXIT_SUCCESS")
       => \A i \in db_PageIndex :
            table0.pager.pages[i] # NULL
            => /\ i < table0.pager.num_pages
               /\ \E k \in 1..Len(syscalls) :
                    syscalls[k] = <<"write", i, i * db_PAGE_SIZE>>

\* get_page of page 1 of a file of one page: the page is new, and
\* num_pages went from 1 to 2.
C35_Witness ==
    /\ pc = "running"
    /\ Len(file) = db_PAGE_SIZE
    /\ table.pager.file_length = db_PAGE_SIZE
    /\ table.pager.pages[1] # NULL
    /\ table.pager.num_pages = 2

\* The cursor points to a cell its leaf has.
CursorAtCell(t, cursor) ==
    /\ cursor.page_num \in db_PageIndex
    /\ cursor.cell_num < leaf_node_num_cells(t.pager.pages[cursor.page_num])

\* Whether every cursor of the loop of execute_select from cursor on, as
\* long as end_of_table is not set, points to a cell its leaf has; the
\* loop is followed for fuel steps at most.
RECURSIVE ScanValid(_, _, _, _)
ScanValid(t, f, cursor, fuel) ==
    IF cursor.end_of_table THEN TRUE
    ELSE IF fuel = 0 THEN FALSE
    ELSE /\ cursor.page_num \in db_PageIndex
         /\ CursorAtCell(WithPage(t, f, cursor.page_num), cursor)
         /\ ScanValid(WithPage(t, f, cursor.page_num), f,
                      cursor_advance(WithPage(t, f, cursor.page_num), cursor),
                      fuel - 1)

\* C36: while a run of db.c lasts, the select of the table as it is calls
\* cursor_value only with cursors that point to a cell of their leaf: the
\* cursor of table_start and every cursor cursor_advance makes of it has
\* end_of_table set or a cell_num below the cell count of the leaf at its
\* page_num; and a select that was executed showed one row for every cell.
C36_ScanCursorValid ==
    /\ pc = "running"
       => ScanValid(table, file, table_start(table, file).cursor, MaxAdvances + 1)
    /\ (pc = "running" /\ statement.type = "STATEMENT_SELECT"
        /\ message = "Executed.")
       => Len(selected) = leaf_node_num_cells(table.pager.pages[0])

\* A select of a full leaf: the scan went over every cell of it.
C36_Witness ==
    /\ pc = "running"
    /\ statement.type = "STATEMENT_SELECT"
    /\ message = "Executed."
    /\ Len(selected) = LEAF_NODE_MAX_CELLS
    /\ leaf_node_num_cells(table.pager.pages[0]) = LEAF_NODE_MAX_CELLS

(***************************************************************************)
(* my_getline under any caller: the caller hands in a block of any size,   *)
(* or none, and calls again with the block it got back.                    *)
(***************************************************************************)
\* The largest block a caller hands to the first call.
GetlineMaxCapacity == 5

GetlineInit ==
    /\ \E j \in Indeterminate : Start(j)
    /\ closed_rows = [clean |-> FALSE, rows |-> <<>>]
    /\ file = <<>>
    /\ syscalls = <<>>
    /\ stdin \in Streams
    /\ buffer_length \in 0..GetlineMaxCapacity

\* my_getline returns a length: input_buffer is the block *lineptr points
\* to afterwards, buffer_length is *n, and overrun tells that a store was
\* made outside the block.
GetlineCall ==
    /\ pc = "running"
    /\ \E g \in {my_getline(buffer_length, stdin)} :
        /\ g.ret >= 0
        /\ input_buffer' = g.line
        /\ buffer_length' = g.n
        /\ stdin' = g.stream
        /\ overrun' = ~g.fits
    /\ UNCHANGED <<pc, exit_status, junk, statement, table, message, selected,
                   inserted, table0, closed_rows, file, syscalls>>

\* my_getline returns -1 and the caller stops.
GetlineEof ==
    /\ pc = "running"
    /\ \E g \in {my_getline(buffer_length, stdin)} :
        /\ g.ret = -1
        /\ buffer_length' = g.n
        /\ stdin' = g.stream
        /\ overrun' = ~g.fits
    /\ pc' = "exited"
    /\ UNCHANGED <<exit_status, junk, input_buffer, statement, table, message,
                   selected, inserted, table0, closed_rows, file, syscalls>>

GetlineNext ==
    \/ GetlineCall
    \/ GetlineEof

SpecGetline == GetlineInit /\ [][GetlineNext]_vars

\* C37: a call of my_getline with a block of *n >= 1 bytes, or with none,
\* makes every store of a character and the store of the terminator at an
\* index below the size the block has then; and when it returns a length,
\* the block it leaves has *n bytes, the length is below *n, the byte at the
\* index that is the length is 0, and the bytes before it are the
\* characters read.
C37_GetlineInBounds ==
    [][\A g \in {my_getline(buffer_length, stdin)} :
        /\ overrun' = ~g.fits
        /\ ~overrun'
        /\ pc' = "running"
           => /\ Len(input_buffer') = buffer_length'
              /\ g.ret < buffer_length'
              /\ input_buffer'[g.ret + 1] = 0
              /\ SubSeq(input_buffer', 1, g.ret)
                 = SubSeq(stdin, 1, g.ret)
              /\ stdin' = SubSeq(stdin, g.ret + 1, Len(stdin))]_vars

\* A call that was handed a block of one byte and read the seven
\* characters of "select" and its newline: the block was grown four times.
C37_Witness ==
    /\ pc = "running"
    /\ buffer_length = 16
    /\ Len(input_buffer) = 16
    /\ SubSeq(input_buffer, 1, 8) = S_select \o <<10, 0>>
    /\ ~overrun

====
